---- MODULE Spec2Model ----
(***************************************************************************)
(* Resumable image build pipeline of flux (builder.py): the build state    *)
(* record (BuildState), its state file on disk, and the step executor      *)
(* (ImageBuilder.build_image / _execute_build_steps).                      *)
(*                                                                         *)
(* A state file is written by open(path, "w") followed by json.dump, so    *)
(* the file is truncated first and filled afterwards; both moments are     *)
(* modelled.  A pipeline instance may crash (be killed) at any point.      *)
(***************************************************************************)
EXTENDS Integers, Sequences, FiniteSets, TLC

\* ------------------------------------------------------------------ bounds
MaxBuilds == 2       \* fresh builds started in one behaviour (also the clock)
MaxDirs == 2         \* working directories mkdtemp hands out in one behaviour
MaxListLen == 2      \* length of completed_steps in the record-level specification

Procs == {1, 2}      \* pipeline instances (processes)
MainProcs == {1}     \* the single instance of the sequential specification
BuildIds == {1, 2}   \* build identifiers (uuid4()[:8])
MainBuildIds == {1}  \* the build identifier of the sequential specification
NoBuild == 0         \* no build id (instance idle)
NoDir == 0           \* Python None for temp_dir
NoPath == <<>>       \* Python None for rootfs_path
NoneVal == "None"    \* Python None for the string fields

\* --------------------------------------------------------------- constants
Steps == <<"debootstrap", "packages", "custom_commands", "environment", "tarball">>

StepSet == {Steps[i] : i \in DOMAIN Steps}

\* Messages of the exceptions an external tool (or the filesystem) raises in a step.
Errors == {"tool failed", "Operation not permitted"}

ErrNoTool == "debootstrap not found"
ErrNotLoaded == "Could not load build state"
ErrJson == "JSONDecodeError"
ErrNoImage == "Build completed but no image was created"
ErrInterrupt == "KeyboardInterrupt"

\* The stored configurations (ConfigManager), by name.
Configs ==
    { [name |-> "t1", distribution |-> "debian", version |-> "12",
       packages |-> <<"curl">>, custom_commands |-> <<>>,
       environment_vars |-> <<>>, user |-> "root", working_dir |-> "/"],
      [name |-> "t2", distribution |-> "ubuntu", version |-> "22.04",
       packages |-> <<>>, custom_commands |-> <<"true">>,
       environment_vars |-> << <<"LANG", "C">> >>, user |-> "dev", working_dir |-> "/app"] }

NoConfig == [name |-> NoneVal, distribution |-> NoneVal, version |-> NoneVal,
             packages |-> <<>>, custom_commands |-> <<>>,
             environment_vars |-> <<>>, user |-> "root", working_dir |-> "/"]

\* ----------------------------------------------------------------- helpers
InSeq(x, s) == \E i \in DOMAIN s : s[i] = x

Range(s) == {s[i] : i \in DOMAIN s}

Max(a, b) == IF a >= b THEN a ELSE b

\* list.index(step), 0-based
StepIndex(step) == (CHOOSE i \in DOMAIN Steps : Steps[i] = step) - 1

\* --------------------------------------------------------------- the record
\* BuildState.__init__: the state dict of a new build.
InitialState(build_id, config_name, started_at) ==
    [build_id |-> build_id,
     config_name |-> config_name,
     started_at |-> started_at,
     current_step |-> 0,
     completed_steps |-> <<>>,
     failed_step |-> NoneVal,
     temp_dir |-> NoDir,
     rootfs_path |-> NoPath,
     error_message |-> NoneVal]

\* The state dict of an instance that holds no BuildState.
BlankState == InitialState(NoBuild, NoneVal, 0)

\* mark_step_completed that appends without looking for the step in the list.
MarkStepCompletedAppends(state, step) ==
    [state EXCEPT !.completed_steps = Append(@, step),
                  !.current_step = IF InSeq(step, Steps)
                                   THEN Max(@, StepIndex(step) + 1) ELSE @]

\* mark_step_completed that leaves current_step alone.
MarkStepCompletedKeepsIndex(state, step) ==
    [state EXCEPT !.completed_steps = IF InSeq(step, @) THEN @ ELSE Append(@, step)]

\* BuildState.mark_step_completed, the update of the dict (the save follows in the action).
MarkStepCompleted(state, step) ==
    LET cs == IF InSeq(step, state.completed_steps)
              THEN state.completed_steps
              ELSE Append(state.completed_steps, step)
        cur == IF InSeq(step, Steps)
               THEN Max(state.current_step, StepIndex(step) + 1)
               ELSE state.current_step
    IN [state EXCEPT !.completed_steps = cs, !.current_step = cur]

\* mark_step_failed that also rewinds the recorded progress.
MarkStepFailedRewinds(state, step, error_message) ==
    [state EXCEPT !.failed_step = step, !.error_message = error_message,
                  !.completed_steps = <<>>, !.current_step = 0]

\* BuildState.mark_step_failed, the update of the dict (the save follows in the action).
MarkStepFailed(state, step, error_message) ==
    [state EXCEPT !.failed_step = step, !.error_message = error_message]

\* get_next_step that is off by one.
GetNextStepSkips(state) ==
    IF state.current_step + 1 < Len(Steps)
    THEN Steps[state.current_step + 2]
    ELSE NoneVal

\* BuildState.get_next_step
GetNextStep(state) ==
    IF state.current_step < Len(Steps)
    THEN Steps[state.current_step + 1]
    ELSE NoneVal

\* A handler that names the step before the pending one, or "unknown" when there is none.
NextStepOrUnknownPrevious(state) ==
    IF state.current_step >= 1 /\ state.current_step <= Len(Steps)
    THEN Steps[state.current_step]
    ELSE "unknown"

\* build_image: build_state.get_next_step() or "unknown"
NextStepOrUnknown(state) ==
    IF GetNextStep(state) # NoneVal THEN GetNextStep(state) ELSE "unknown"

\* The state file: absent, truncated by open(.., "w") and not yet written, or one JSON document.
AbsentFile == [kind |-> "absent"]
PartialFile == [kind |-> "partial"]
\* A dump that writes the two directory fields as null.
JsonDumpNoPaths(state) ==
    [kind |-> "json", state |-> [state EXCEPT !.temp_dir = NoDir, !.rootfs_path = NoPath]]

\* json.dump of the state dict (strings, numbers, a list of strings, None): one document.
JsonDump(state) == [kind |-> "json", state |-> state]
\* A load that keeps the identity and the directories of the record and forgets its progress.
JsonLoadForgets(file) == [file.state EXCEPT !.completed_steps = <<>>, !.current_step = 0]

\* json.load of a complete document: the dict that was dumped.
JsonLoad(file) == file.state

\* An archive name that also depends on the configured user.
ImageNameWithUser(config) ==
    <<"images_dir", config.name, "-", config.distribution, "-", config.version,
      "-", config.user, ".tar.gz">>

\* _create_tarball: images_dir / f"{config.name}-{config.distribution}-{config.version}.tar.gz"
ImageName(config) ==
    <<"images_dir", config.name, "-", config.distribution, "-", config.version, ".tar.gz">>

\* Branches that call their operation whatever the configuration lists.
InvokesOperationAlways(config, step) == TRUE

\* Whether the step's branch calls an external operation for this configuration.
InvokesOperation(config, step) ==
    CASE step = "packages" -> config.packages # <<>>
      [] step = "custom_commands" -> config.custom_commands # <<>>
      [] OTHER -> TRUE

\* A suite lookup that falls back to "stable" for a version it does not list.
SuiteOfDefaultsStable(distribution, version) ==
    CASE distribution = "ubuntu" /\ version = "22.04" -> "jammy"
      [] distribution = "ubuntu" /\ version = "20.04" -> "focal"
      [] distribution = "ubuntu" /\ version = "18.04" -> "bionic"
      [] distribution = "ubuntu" /\ version = "24.04" -> "noble"
      [] distribution = "debian" /\ version = "12" -> "bookworm"
      [] distribution = "debian" /\ version = "11" -> "bullseye"
      [] distribution = "debian" /\ version = "10" -> "buster"
      [] distribution = "debian" /\ version = "bookworm" -> "bookworm"
      [] distribution = "debian" /\ version = "bullseye" -> "bullseye"
      [] OTHER -> "stable"

\* _run_debootstrap: suite_map[config.distribution].get(config.version, config.version)
\* for ubuntu and debian, config.version for every other distribution.
SuiteOf(distribution, version) ==
    CASE distribution = "ubuntu" /\ version = "22.04" -> "jammy"
      [] distribution = "ubuntu" /\ version = "20.04" -> "focal"
      [] distribution = "ubuntu" /\ version = "18.04" -> "bionic"
      [] distribution = "ubuntu" /\ version = "24.04" -> "noble"
      [] distribution = "debian" /\ version = "12" -> "bookworm"
      [] distribution = "debian" /\ version = "11" -> "bullseye"
      [] distribution = "debian" /\ version = "10" -> "buster"
      [] distribution = "debian" /\ version = "bookworm" -> "bookworm"
      [] distribution = "debian" /\ version = "bullseye" -> "bullseye"
      [] OTHER -> version

\* _run_debootstrap: mirror_map.get(config.distribution, [""])
MirrorsOf(distribution) ==
    CASE distribution = "ubuntu" ->
            <<"http://archive.ubuntu.com/ubuntu/",
              "http://us.archive.ubuntu.com/ubuntu/",
              "http://mirror.math.princeton.edu/pub/ubuntu/">>
      [] distribution = "debian" ->
            <<"http://deb.debian.org/debian/", "http://ftp.us.debian.org/debian/">>
      [] OTHER -> <<"">>

\* _execute_build_steps: rootfs_path = Path(temp_dir) / "rootfs"
RootfsOf(dir) == <<dir, "rootfs">>

\* The working directory a rootfs path lies in.
DirOf(path) == path[1]

\* The operation a step's branch calls when it calls one.
OperationOf(step) ==
    CASE step = "debootstrap" -> "_run_debootstrap"
      [] step = "packages" -> "_install_packages"
      [] step = "custom_commands" -> "_run_custom_commands"
      [] step = "environment" -> "_setup_environment"
      [] step = "tarball" -> "_create_tarball"

\* What is in a rootfs directory: whether debootstrap has built the base system in it,
\* and whether /etc/environment holds the configured declarations not at all ("none"),
\* one time ("once") or more than one time ("repeated").
EmptyRootfs == [base |-> FALSE, env |-> "none"]

\* _setup_env_vars: open(env_file, "a") and one line per variable.
SetupEnvVars(content, config) ==
    IF config.environment_vars = <<>>
    THEN content
    ELSE [content EXCEPT !.env = IF @ = "none" THEN "once" ELSE "repeated"]

\* What the operation of a step other than debootstrap leaves in the rootfs.
StepEffect(content, config, step) ==
    IF step = "environment" THEN SetupEnvVars(content, config) ELSE content

\* No script was written.
NoScript == [shell |-> NoneVal, errexit |-> FALSE, commands |-> <<>>]

\* The tools a package script calls that can exit non-zero; echo is a shell builtin.
ExternalTools == {"apt-get", "dnf", "yum", "apk", "rm"}

\* The commands that install packages.
InstallCommands ==
    { <<"apt-get", "install">>, <<"dnf", "install">>, <<"yum", "install">>, <<"apk", "add">> }

\* A script generator that falls back to apt-get for a distribution it does not know.
CreatePackageScriptDefaultsApt(config) ==
    [shell |-> "/bin/bash", errexit |-> TRUE,
     commands |-> << <<"apt-get", "update">>,
                     <<"apt-get", "install", "-y", config.packages>>,
                     <<"apt-get", "clean">>,
                     <<"rm", "-rf", "/var/lib/apt/lists/*">> >>]

\* _create_package_script: the script text as its interpreter line, set -e and commands.
CreatePackageScript(config) ==
    CASE config.distribution \in {"ubuntu", "debian"} ->
            [shell |-> "/bin/bash", errexit |-> TRUE,
             commands |-> << <<"apt-get", "update">>,
                             <<"apt-get", "install", "-y", config.packages>>,
                             <<"apt-get", "clean">>,
                             <<"rm", "-rf", "/var/lib/apt/lists/*">> >>]
      [] config.distribution = "fedora" ->
            [shell |-> "/bin/bash", errexit |-> TRUE,
             commands |-> << <<"dnf", "install", "-y", config.packages>>,
                             <<"dnf", "clean", "all">> >>]
      [] config.distribution = "centos" ->
            [shell |-> "/bin/bash", errexit |-> TRUE,
             commands |-> << <<"yum", "install", "-y", config.packages>>,
                             <<"yum", "clean", "all">> >>]
      [] config.distribution = "alpine" ->
            [shell |-> "/bin/sh", errexit |-> TRUE,
             commands |-> << <<"apk", "update">>,
                             <<"apk", "add", config.packages>>,
                             <<"rm", "-rf", "/var/cache/apk/*">> >>]
      [] OTHER ->
            [shell |-> "/bin/bash", errexit |-> TRUE,
             commands |-> << <<"echo", "Package installation not supported for",
                               config.distribution>> >>]

\* The exit status of a script run by its shell when the tools in failing exit non-zero:
\* under set -e the first failing command ends the script with a non-zero status,
\* otherwise the status is the one of the last command.
ScriptExit(sc, failing) ==
    LET fails(i) == sc.commands[i][1] \in failing IN
    IF sc.errexit
    THEN IF \E i \in DOMAIN sc.commands : fails(i) THEN 1 ELSE 0
    ELSE IF fails(Len(sc.commands)) THEN 1 ELSE 0

\* ------------------------------------------------------------------- state
VARIABLES
    disk,          \* build id -> its state file in images_dir/.build_states
    persisted,     \* build id -> the last complete document written to that file (history)
    dirs,          \* the working directories that exist under /tmp
    nextDir,       \* how many working directories mkdtemp has created
    now,           \* time.time(), advanced at each build creation
    pc,            \* instance -> its position in build_image
    mem,           \* instance -> build_state.state, the dict in memory
    cfg,           \* instance -> build_state.config
    temp_dir,      \* instance -> local temp_dir of _execute_build_steps
    rootfs_path,   \* instance -> local rootfs_path of _execute_build_steps
    next_step,     \* instance -> local next_step of _execute_build_steps
    err,           \* instance -> the exception in flight or raised to the caller
    ret,           \* instance -> where save_state returns to
    ran,           \* instance -> the steps whose branch ran in this invocation (history)
    loaded,        \* instance -> completed_steps as loaded at the start of the invocation (history)
    result,        \* instance -> the value build_image returned
    warned,        \* instance -> "Could not clean up temp directory" was printed
    last_call,     \* the last direct call made on the record (record-level specification)
    continue_build_id, \* instance -> the continue_build_id build_image was called with
    mirror_pos,    \* instance -> how many mirrors the for loop of _run_debootstrap has taken
    last_error,    \* instance -> local last_error of _run_debootstrap
    tried,         \* instance -> the mirrors attempted in this invocation, in order (history)
    mirror_errors, \* instance -> the errors of the failed attempts, in order (history)
    rootfs,        \* working directory (by number) -> what its rootfs holds
    suite,         \* instance -> local suite of _run_debootstrap
    invoked,       \* instance -> the operations called in this invocation, in order (history)
    swallowed,     \* instance -> the steps in which a tool failed and only a warning was printed
    script         \* instance -> the script _install_packages wrote and ran in this invocation

vars == <<disk, persisted, dirs, nextDir, now, pc, mem, cfg, temp_dir, rootfs_path,
          next_step, err, ret, ran, loaded, result, warned, last_call,
          continue_build_id, mirror_pos, last_error, tried, mirror_errors,
          rootfs, suite, invoked, swallowed, script>>

fsVars == <<dirs, nextDir, rootfs>>
localVars == <<temp_dir, rootfs_path>>
histVars == <<ran, loaded, warned>>
mirrorVars == <<mirror_pos, last_error, tried, mirror_errors>>
opVars == <<suite, invoked, swallowed, script>>

\* _install_packages writes the script of _create_package_script into the rootfs and runs it.
ScriptAfter(p, s) ==
    IF s = "packages" /\ InvokesOperation(cfg[p], s)
    THEN CreatePackageScript(cfg[p])
    ELSE script[p]

\* The state of an instance outside build_image.
Reset(p) ==
    /\ pc' = [pc EXCEPT ![p] = "idle"]
    /\ mem' = [mem EXCEPT ![p] = BlankState]
    /\ cfg' = [cfg EXCEPT ![p] = NoConfig]
    /\ temp_dir' = [temp_dir EXCEPT ![p] = NoDir]
    /\ rootfs_path' = [rootfs_path EXCEPT ![p] = NoPath]
    /\ next_step' = [next_step EXCEPT ![p] = NoneVal]
    /\ err' = [err EXCEPT ![p] = NoneVal]
    /\ ret' = [ret EXCEPT ![p] = NoneVal]
    /\ ran' = [ran EXCEPT ![p] = <<>>]
    /\ loaded' = [loaded EXCEPT ![p] = <<>>]
    /\ result' = [result EXCEPT ![p] = <<>>]
    /\ warned' = [warned EXCEPT ![p] = FALSE]
    /\ continue_build_id' = [continue_build_id EXCEPT ![p] = NoBuild]
    /\ mirror_pos' = [mirror_pos EXCEPT ![p] = 0]
    /\ last_error' = [last_error EXCEPT ![p] = NoneVal]
    /\ tried' = [tried EXCEPT ![p] = <<>>]
    /\ mirror_errors' = [mirror_errors EXCEPT ![p] = <<>>]
    /\ suite' = [suite EXCEPT ![p] = NoneVal]
    /\ invoked' = [invoked EXCEPT ![p] = <<>>]
    /\ swallowed' = [swallowed EXCEPT ![p] = {}]
    /\ script' = [script EXCEPT ![p] = NoScript]

Init ==
    /\ disk = [b \in BuildIds |-> AbsentFile]
    /\ persisted = [b \in BuildIds |-> AbsentFile]
    /\ dirs = {}
    /\ nextDir = 0
    /\ rootfs = <<>>
    /\ now = 0
    /\ pc = [p \in Procs |-> "idle"]
    /\ mem = [p \in Procs |-> BlankState]
    /\ cfg = [p \in Procs |-> NoConfig]
    /\ temp_dir = [p \in Procs |-> NoDir]
    /\ rootfs_path = [p \in Procs |-> NoPath]
    /\ next_step = [p \in Procs |-> NoneVal]
    /\ err = [p \in Procs |-> NoneVal]
    /\ ret = [p \in Procs |-> NoneVal]
    /\ ran = [p \in Procs |-> <<>>]
    /\ loaded = [p \in Procs |-> <<>>]
    /\ result = [p \in Procs |-> <<>>]
    /\ warned = [p \in Procs |-> FALSE]
    /\ last_call = <<>>
    /\ continue_build_id = [p \in Procs |-> NoBuild]
    /\ mirror_pos = [p \in Procs |-> 0]
    /\ last_error = [p \in Procs |-> NoneVal]
    /\ tried = [p \in Procs |-> <<>>]
    /\ mirror_errors = [p \in Procs |-> <<>>]
    /\ suite = [p \in Procs |-> NoneVal]
    /\ invoked = [p \in Procs |-> <<>>]
    /\ swallowed = [p \in Procs |-> {}]
    /\ script = [p \in Procs |-> NoScript]

\* ---------------------------------------------------------------- save_state
\* save_state, first half: open(self.state_file, "w") truncates the file.
OpenStateFile(p, after) ==
    /\ disk' = [disk EXCEPT ![mem'[p].build_id] = PartialFile]
    /\ pc' = [pc EXCEPT ![p] = "saving"]
    /\ ret' = [ret EXCEPT ![p] = after]
    /\ UNCHANGED persisted

\* save_state, second half: json.dump writes the document and the file is closed.
SaveWrite(p) ==
    /\ pc[p] = "saving"
    /\ disk' = [disk EXCEPT ![mem[p].build_id] = JsonDump(mem[p])]
    /\ persisted' = [persisted EXCEPT ![mem[p].build_id] = JsonDump(mem[p])]
    /\ pc' = [pc EXCEPT ![p] = ret[p]]
    /\ ret' = [ret EXCEPT ![p] = NoneVal]
    /\ UNCHANGED <<fsVars, now, mem, cfg, localVars, next_step, err, histVars, result, last_call, continue_build_id, mirrorVars, opVars>>

\* ---------------------------------------------------------------- build_image
\* A tool check that is made only after a working directory was created.
CheckDebootstrapFailsLate(p) ==
    /\ pc[p] = "idle"
    /\ nextDir < MaxDirs
    /\ nextDir' = nextDir + 1
    /\ dirs' = dirs \cup {nextDir + 1}
    /\ rootfs' = Append(rootfs, EmptyRootfs)
    /\ pc' = [pc EXCEPT ![p] = "raised"]
    /\ err' = [err EXCEPT ![p] = ErrNoTool]
    /\ UNCHANGED <<disk, persisted, now, mem, cfg, localVars, next_step, ret,
                   histVars, result, last_call, continue_build_id, mirrorVars, opVars>>

\* build_image: _check_debootstrap() is false, RuntimeError before any state exists.
CheckDebootstrapFails(p) ==
    /\ pc[p] = "idle"
    /\ pc' = [pc EXCEPT ![p] = "raised"]
    /\ err' = [err EXCEPT ![p] = ErrNoTool]
    /\ UNCHANGED <<disk, persisted, fsVars, now, mem, cfg, localVars, next_step, ret,
                   histVars, result, last_call, continue_build_id, mirrorVars, opVars>>

\* build_image without continue_build_id: a new BuildState under a new build id.
StartFresh(p, c, b) ==
    /\ pc[p] = "idle"
    /\ now < MaxBuilds
    /\ disk[b].kind = "absent"
    /\ \A q \in Procs : mem[q].build_id # b
    /\ now' = now + 1
    /\ mem' = [mem EXCEPT ![p] = InitialState(b, c.name, now + 1)]
    /\ cfg' = [cfg EXCEPT ![p] = c]
    /\ pc' = [pc EXCEPT ![p] = "alloc"]
    /\ UNCHANGED <<disk, persisted, fsVars, localVars, next_step, err, ret, histVars,
                   result, last_call, continue_build_id, mirrorVars, opVars>>

\* A resume that, finding no state file, goes on with a new record under that id.
ResumeNotFoundStartsNew(p, c, b) ==
    /\ pc[p] = "idle"
    /\ disk[b].kind = "absent"
    /\ mem' = [mem EXCEPT ![p] = InitialState(b, c.name, now)]
    /\ cfg' = [cfg EXCEPT ![p] = c]
    /\ continue_build_id' = [continue_build_id EXCEPT ![p] = b]
    /\ pc' = [pc EXCEPT ![p] = "alloc"]
    /\ UNCHANGED <<disk, persisted, fsVars, now, localVars, next_step, err, ret,
                   histVars, result, last_call, mirrorVars, opVars>>

\* build_image with continue_build_id, _load_build_state returns None: no state file.
ResumeNotFound(p, c, b) ==
    /\ pc[p] = "idle"
    /\ disk[b].kind = "absent"
    /\ pc' = [pc EXCEPT ![p] = "raised"]
    /\ err' = [err EXCEPT ![p] = ErrNotLoaded]
    /\ continue_build_id' = [continue_build_id EXCEPT ![p] = b]
    /\ UNCHANGED <<disk, persisted, fsVars, now, mem, cfg, localVars, next_step, ret,
                   histVars, result, last_call, mirrorVars, opVars>>

\* build_image with continue_build_id, json.load raises on a truncated state file
\* (outside the try of build_image: nothing is recorded).
ResumeUnreadable(p, c, b) ==
    /\ pc[p] = "idle"
    /\ disk[b].kind = "partial"
    /\ pc' = [pc EXCEPT ![p] = "raised"]
    /\ err' = [err EXCEPT ![p] = ErrJson]
    /\ continue_build_id' = [continue_build_id EXCEPT ![p] = b]
    /\ UNCHANGED <<disk, persisted, fsVars, now, mem, cfg, localVars, next_step, ret,
                   histVars, result, last_call, mirrorVars, opVars>>

\* A load that keeps config_name and started_at of the BuildState just constructed.
ResumeLoadKeepsInit(p, c, b) ==
    /\ pc[p] = "idle"
    /\ disk[b].kind = "json"
    /\ mem' = [mem EXCEPT ![p] = [JsonLoad(disk[b]) EXCEPT !.config_name = c.name,
                                                          !.started_at = now + 1]]
    /\ cfg' = [cfg EXCEPT ![p] = c]
    /\ loaded' = [loaded EXCEPT ![p] = disk[b].state.completed_steps]
    /\ continue_build_id' = [continue_build_id EXCEPT ![p] = b]
    /\ pc' = [pc EXCEPT ![p] = "alloc"]
    /\ UNCHANGED <<disk, persisted, fsVars, now, localVars, next_step, err, ret, ran,
                   warned, result, last_call, mirrorVars, opVars>>

\* build_image with continue_build_id, _load_build_state / load_state read the record.
ResumeLoad(p, c, b) ==
    /\ pc[p] = "idle"
    /\ disk[b].kind = "json"
    /\ mem' = [mem EXCEPT ![p] = JsonLoad(disk[b])]
    /\ cfg' = [cfg EXCEPT ![p] = c]
    /\ loaded' = [loaded EXCEPT ![p] = disk[b].state.completed_steps]
    /\ continue_build_id' = [continue_build_id EXCEPT ![p] = b]
    /\ pc' = [pc EXCEPT ![p] = "alloc"]
    /\ UNCHANGED <<disk, persisted, fsVars, now, localVars, next_step, err, ret, ran,
                   warned, result, last_call, mirrorVars, opVars>>

\* _execute_build_steps: the record names a working directory that exists.
HasUsableDir(state) == state.temp_dir # NoDir /\ state.temp_dir \in dirs

\* A resume that allocates a new working directory although the recorded one exists.
ReuseDirAllocates(p) ==
    /\ pc[p] = "alloc"
    /\ HasUsableDir(mem[p])
    /\ nextDir < MaxDirs
    /\ nextDir' = nextDir + 1
    /\ dirs' = dirs \cup {nextDir + 1}
    /\ rootfs' = Append(rootfs, EmptyRootfs)
    /\ temp_dir' = [temp_dir EXCEPT ![p] = nextDir + 1]
    /\ rootfs_path' = [rootfs_path EXCEPT ![p] = RootfsOf(nextDir + 1)]
    /\ pc' = [pc EXCEPT ![p] = "loop"]
    /\ UNCHANGED <<disk, persisted, now, mem, cfg, next_step, err, ret, histVars,
                   result, last_call, continue_build_id, mirrorVars, opVars>>

\* _execute_build_steps: reuse the working directory of the record.
ReuseDir(p) ==
    /\ pc[p] = "alloc"
    /\ HasUsableDir(mem[p])
    /\ temp_dir' = [temp_dir EXCEPT ![p] = mem[p].temp_dir]
    /\ rootfs_path' = [rootfs_path EXCEPT ![p] = mem[p].rootfs_path]
    /\ pc' = [pc EXCEPT ![p] = "loop"]
    /\ UNCHANGED <<disk, persisted, fsVars, now, mem, cfg, next_step, err, ret, histVars,
                   result, last_call, continue_build_id, mirrorVars, opVars>>

\* An allocation that uses the new directory without writing it into the record.
AllocDirNotRecorded(p) ==
    /\ pc[p] = "alloc"
    /\ ~HasUsableDir(mem[p])
    /\ nextDir < MaxDirs
    /\ nextDir' = nextDir + 1
    /\ dirs' = dirs \cup {nextDir + 1}
    /\ rootfs' = Append(rootfs, EmptyRootfs)
    /\ temp_dir' = [temp_dir EXCEPT ![p] = nextDir + 1]
    /\ rootfs_path' = [rootfs_path EXCEPT ![p] = RootfsOf(nextDir + 1)]
    /\ pc' = [pc EXCEPT ![p] = "loop"]
    /\ UNCHANGED <<disk, persisted, now, mem, cfg, next_step, err, ret, histVars,
                   result, last_call, continue_build_id, mirrorVars, opVars>>

\* An allocation under a fixed directory name instead of a name made by mkdtemp.
AllocDirSharedName(p) ==
    /\ pc[p] = "alloc"
    /\ ~HasUsableDir(mem[p])
    /\ nextDir' = Max(nextDir, 1)
    /\ dirs' = dirs \cup {1}
    /\ rootfs' = IF nextDir = 0 THEN <<EmptyRootfs>> ELSE rootfs
    /\ temp_dir' = [temp_dir EXCEPT ![p] = 1]
    /\ rootfs_path' = [rootfs_path EXCEPT ![p] = RootfsOf(1)]
    /\ mem' = [mem EXCEPT ![p] = [@ EXCEPT !.temp_dir = 1, !.rootfs_path = RootfsOf(1)]]
    /\ OpenStateFile(p, "loop")
    /\ UNCHANGED <<now, cfg, next_step, err, histVars, result, last_call,
                   continue_build_id, mirrorVars, opVars>>

\* _execute_build_steps: mkdtemp a new working directory, record it, save_state.
AllocDir(p) ==
    /\ pc[p] = "alloc"
    /\ ~HasUsableDir(mem[p])
    /\ nextDir < MaxDirs
    /\ LET d == nextDir + 1 IN
        /\ nextDir' = d
        /\ dirs' = dirs \cup {d}
        /\ rootfs' = Append(rootfs, EmptyRootfs)
        /\ temp_dir' = [temp_dir EXCEPT ![p] = d]
        /\ rootfs_path' = [rootfs_path EXCEPT ![p] = RootfsOf(d)]
        /\ mem' = [mem EXCEPT ![p] = [@ EXCEPT !.temp_dir = d, !.rootfs_path = RootfsOf(d)]]
    /\ OpenStateFile(p, "loop")
    /\ UNCHANGED <<now, cfg, next_step, err, histVars, result, last_call, continue_build_id, mirrorVars, opVars>>

\* The step the loop of _execute_build_steps is about to run.
Runnable(p, s) ==
    /\ pc[p] = "loop"
    /\ s = GetNextStep(mem[p])
    /\ s # NoneVal
    /\ ~InSeq(s, mem[p].completed_steps)

\* A step whose operation, when it succeeds, also removes the state file.
RunStepOkDeletesState(p) ==
    \E s \in StepSet :
        /\ Runnable(p, s)
        /\ s # "debootstrap"
        /\ next_step' = [next_step EXCEPT ![p] = s]
        /\ ran' = [ran EXCEPT ![p] = Append(@, s)]
        /\ invoked' = [invoked EXCEPT ![p] =
                        IF InvokesOperation(cfg[p], s) THEN Append(@, OperationOf(s)) ELSE @]
        /\ rootfs' = [rootfs EXCEPT ![DirOf(rootfs_path[p])] =
                        IF InvokesOperation(cfg[p], s) THEN StepEffect(@, cfg[p], s) ELSE @]
        /\ disk' = [disk EXCEPT ![mem[p].build_id] = AbsentFile]
        /\ script' = [script EXCEPT ![p] = ScriptAfter(p, s)]
        /\ pc' = [pc EXCEPT ![p] = "mark"]
        /\ UNCHANGED <<persisted, dirs, nextDir, now, mem, cfg, localVars, err, ret, loaded,
                       warned, result, last_call, continue_build_id, mirrorVars,
                       suite, swallowed>>

\* _execute_build_steps: the branch of a step other than debootstrap runs and its
\* operation (if any) succeeds.
RunStepOk(p) ==
    \E s \in StepSet :
        /\ Runnable(p, s)
        /\ s # "debootstrap"
        /\ next_step' = [next_step EXCEPT ![p] = s]
        /\ ran' = [ran EXCEPT ![p] = Append(@, s)]
        /\ invoked' = [invoked EXCEPT ![p] =
                        IF InvokesOperation(cfg[p], s) THEN Append(@, OperationOf(s)) ELSE @]
        /\ rootfs' = [rootfs EXCEPT ![DirOf(rootfs_path[p])] =
                        IF InvokesOperation(cfg[p], s) THEN StepEffect(@, cfg[p], s) ELSE @]
        /\ script' = [script EXCEPT ![p] = ScriptAfter(p, s)]
        /\ pc' = [pc EXCEPT ![p] = "mark"]
        /\ UNCHANGED <<disk, persisted, dirs, nextDir, now, mem, cfg, localVars, err, ret, loaded,
                       warned, result, last_call, continue_build_id, mirrorVars, suite, swallowed>>

\* A failing step whose handler removes the working directory.
RunStepFailsCleansUp(p, e) ==
    \E s \in StepSet :
        /\ Runnable(p, s)
        /\ s # "debootstrap"
        /\ InvokesOperation(cfg[p], s)
        /\ next_step' = [next_step EXCEPT ![p] = s]
        /\ ran' = [ran EXCEPT ![p] = Append(@, s)]
        /\ invoked' = [invoked EXCEPT ![p] = Append(@, OperationOf(s))]
        /\ err' = [err EXCEPT ![p] = e]
        /\ dirs' = dirs \ {temp_dir[p]}
        /\ rootfs' = [rootfs EXCEPT ![temp_dir[p]] = EmptyRootfs]
        /\ script' = [script EXCEPT ![p] = ScriptAfter(p, s)]
        /\ pc' = [pc EXCEPT ![p] = "except"]
        /\ UNCHANGED <<disk, persisted, nextDir, now, mem, cfg, localVars, ret, loaded,
                       warned, result, last_call, continue_build_id, mirrorVars, suite, swallowed>>

\* _execute_build_steps: the operation of a step other than debootstrap raises.
RunStepFails(p, e) ==
    \E s \in StepSet :
        /\ Runnable(p, s)
        /\ s # "debootstrap"
        /\ InvokesOperation(cfg[p], s)
        /\ next_step' = [next_step EXCEPT ![p] = s]
        /\ ran' = [ran EXCEPT ![p] = Append(@, s)]
        /\ invoked' = [invoked EXCEPT ![p] = Append(@, OperationOf(s))]
        /\ err' = [err EXCEPT ![p] = e]
        /\ script' = [script EXCEPT ![p] = ScriptAfter(p, s)]
        /\ pc' = [pc EXCEPT ![p] = "except"]
        /\ UNCHANGED <<disk, persisted, fsVars, now, mem, cfg, localVars, ret, loaded,
                       warned, result, last_call, continue_build_id, mirrorVars, suite, swallowed>>

\* A bootstrap that, resuming a failed bootstrap, starts after the first mirror.
StartDebootstrapSkipsFailed(p) ==
    /\ Runnable(p, "debootstrap")
    /\ next_step' = [next_step EXCEPT ![p] = "debootstrap"]
    /\ ran' = [ran EXCEPT ![p] = Append(@, "debootstrap")]
    /\ mirror_pos' = [mirror_pos EXCEPT ![p] =
                        IF mem[p].failed_step = "debootstrap" THEN 1 ELSE 0]
    /\ last_error' = [last_error EXCEPT ![p] = NoneVal]
    /\ suite' = [suite EXCEPT ![p] = SuiteOf(cfg[p].distribution, cfg[p].version)]
    /\ invoked' = [invoked EXCEPT ![p] = Append(@, OperationOf("debootstrap"))]
    /\ pc' = [pc EXCEPT ![p] = "mirror"]
    /\ UNCHANGED <<disk, persisted, fsVars, now, mem, cfg, localVars, err, ret, loaded,
                   warned, result, last_call, continue_build_id, tried, mirror_errors, swallowed, script>>

\* _execute_build_steps: the debootstrap branch calls _run_debootstrap, which sets
\* last_error = None and starts the for loop over the mirrors.
StartDebootstrap(p) ==
    /\ Runnable(p, "debootstrap")
    /\ next_step' = [next_step EXCEPT ![p] = "debootstrap"]
    /\ ran' = [ran EXCEPT ![p] = Append(@, "debootstrap")]
    /\ mirror_pos' = [mirror_pos EXCEPT ![p] = 0]
    /\ last_error' = [last_error EXCEPT ![p] = NoneVal]
    /\ suite' = [suite EXCEPT ![p] = SuiteOf(cfg[p].distribution, cfg[p].version)]
    /\ invoked' = [invoked EXCEPT ![p] = Append(@, OperationOf("debootstrap"))]
    /\ pc' = [pc EXCEPT ![p] = "mirror"]
    /\ UNCHANGED <<disk, persisted, fsVars, now, mem, cfg, localVars, err, ret, loaded,
                   warned, result, last_call, continue_build_id, tried, mirror_errors, swallowed, script>>

\* The mirror the for loop of _run_debootstrap takes next.
NextMirror(p) == MirrorsOf(cfg[p].distribution)[mirror_pos[p] + 1]

\* The for loop of _run_debootstrap has a mirror left.
HasMirror(p) ==
    pc[p] = "mirror" /\ mirror_pos[p] < Len(MirrorsOf(cfg[p].distribution))

\* A successful attempt after which the loop goes on to the remaining mirrors.
TryMirrorOkContinues(p) ==
    /\ HasMirror(p)
    /\ tried' = [tried EXCEPT ![p] = Append(@, NextMirror(p))]
    /\ mirror_pos' = [mirror_pos EXCEPT ![p] = @ + 1]
    /\ rootfs' = [rootfs EXCEPT ![DirOf(rootfs_path[p])].base = TRUE]
    /\ pc' = [pc EXCEPT ![p] =
                IF mirror_pos[p] + 1 < Len(MirrorsOf(cfg[p].distribution))
                THEN "mirror" ELSE "mark"]
    /\ UNCHANGED <<disk, persisted, dirs, nextDir, now, mem, cfg, localVars, next_step, err, ret,
                   histVars, result, last_call, continue_build_id, last_error,
                   mirror_errors, opVars>>

\* _run_debootstrap: _run_debootstrap_with_mirror succeeds on the next mirror; return.
TryMirrorOk(p) ==
    /\ HasMirror(p)
    /\ tried' = [tried EXCEPT ![p] = Append(@, NextMirror(p))]
    /\ mirror_pos' = [mirror_pos EXCEPT ![p] = @ + 1]
    /\ rootfs' = [rootfs EXCEPT ![DirOf(rootfs_path[p])].base = TRUE]
    /\ pc' = [pc EXCEPT ![p] = "mark"]
    /\ UNCHANGED <<disk, persisted, dirs, nextDir, now, mem, cfg, localVars, next_step, err, ret,
                   histVars, result, last_call, continue_build_id, last_error,
                   mirror_errors, opVars>>

\* _run_debootstrap: _run_debootstrap_with_mirror raises on the next mirror;
\* last_error = e; continue.
TryMirrorFails(p, e) ==
    /\ HasMirror(p)
    /\ tried' = [tried EXCEPT ![p] = Append(@, NextMirror(p))]
    /\ mirror_pos' = [mirror_pos EXCEPT ![p] = @ + 1]
    /\ last_error' = [last_error EXCEPT ![p] = e]
    /\ mirror_errors' = [mirror_errors EXCEPT ![p] = Append(@, e)]
    /\ UNCHANGED <<disk, persisted, fsVars, now, pc, mem, cfg, localVars, next_step, err,
                   ret, histVars, result, last_call, continue_build_id, opVars>>

\* An exhausted mirror list that raises the error of the first attempt.
MirrorsExhaustedRaisesFirst(p) ==
    /\ pc[p] = "mirror"
    /\ mirror_pos[p] = Len(MirrorsOf(cfg[p].distribution))
    /\ last_error[p] # NoneVal
    /\ err' = [err EXCEPT ![p] = mirror_errors[p][1]]
    /\ pc' = [pc EXCEPT ![p] = "except"]
    /\ UNCHANGED <<disk, persisted, fsVars, now, mem, cfg, localVars, next_step, ret,
                   histVars, result, last_call, continue_build_id, mirrorVars, opVars>>

\* _run_debootstrap: the for loop is over, if last_error: raise last_error.
MirrorsExhausted(p) ==
    /\ pc[p] = "mirror"
    /\ mirror_pos[p] = Len(MirrorsOf(cfg[p].distribution))
    /\ last_error[p] # NoneVal
    /\ err' = [err EXCEPT ![p] = last_error[p]]
    /\ pc' = [pc EXCEPT ![p] = "except"]
    /\ UNCHANGED <<disk, persisted, fsVars, now, mem, cfg, localVars, next_step, ret,
                   histVars, result, last_call, continue_build_id, mirrorVars, opVars>>

\* The step whose operation an interrupt can hit: a mirror attempt of debootstrap, or
\* the operation of a later step.
InterruptReaches(p, s) ==
    \/ HasMirror(p) /\ s = "debootstrap"
    \/ Runnable(p, s) /\ s # "debootstrap" /\ InvokesOperation(cfg[p], s)

\* An interrupt that the handler of build_image records like an ordinary exception.
StepInterruptedRecorded(p) ==
    \E s \in StepSet :
        /\ InterruptReaches(p, s)
        /\ next_step' = [next_step EXCEPT ![p] = s]
        /\ ran' = [ran EXCEPT ![p] = IF HasMirror(p) THEN @ ELSE Append(@, s)]
        /\ invoked' = [invoked EXCEPT ![p] =
                        IF HasMirror(p) THEN @ ELSE Append(@, OperationOf(s))]
        /\ tried' = [tried EXCEPT ![p] = IF HasMirror(p) THEN Append(@, NextMirror(p)) ELSE @]
        /\ err' = [err EXCEPT ![p] = ErrInterrupt]
        /\ script' = [script EXCEPT ![p] = ScriptAfter(p, s)]
        /\ pc' = [pc EXCEPT ![p] = "except"]
        /\ UNCHANGED <<disk, persisted, fsVars, now, mem, cfg, localVars, ret, loaded,
                       warned, result, last_call, continue_build_id, mirror_pos,
                       last_error, mirror_errors, suite, swallowed>>

\* SIGINT while the operation of a step runs: KeyboardInterrupt is no Exception, so it
\* passes the except clauses of _run_debootstrap, _execute_build_steps and build_image.
StepInterrupted(p) ==
    \E s \in StepSet :
        /\ InterruptReaches(p, s)
        /\ next_step' = [next_step EXCEPT ![p] = s]
        /\ ran' = [ran EXCEPT ![p] = IF HasMirror(p) THEN @ ELSE Append(@, s)]
        /\ invoked' = [invoked EXCEPT ![p] =
                        IF HasMirror(p) THEN @ ELSE Append(@, OperationOf(s))]
        /\ tried' = [tried EXCEPT ![p] = IF HasMirror(p) THEN Append(@, NextMirror(p)) ELSE @]
        /\ err' = [err EXCEPT ![p] = ErrInterrupt]
        /\ script' = [script EXCEPT ![p] = ScriptAfter(p, s)]
        /\ pc' = [pc EXCEPT ![p] = "raised"]
        /\ UNCHANGED <<disk, persisted, fsVars, now, mem, cfg, localVars, ret, loaded,
                       warned, result, last_call, continue_build_id, mirror_pos,
                       last_error, mirror_errors, suite, swallowed>>

\* _setup_environment where the useradd script of _create_user exits non-zero:
\* CalledProcessError is caught, a warning is printed, the rest of the step runs.
CreateUserFails(p) ==
    /\ Runnable(p, "environment")
    /\ cfg[p].user # "root"
    /\ next_step' = [next_step EXCEPT ![p] = "environment"]
    /\ ran' = [ran EXCEPT ![p] = Append(@, "environment")]
    /\ invoked' = [invoked EXCEPT ![p] = Append(@, OperationOf("environment"))]
    /\ swallowed' = [swallowed EXCEPT ![p] = @ \cup {"environment"}]
    /\ rootfs' = [rootfs EXCEPT ![DirOf(rootfs_path[p])] = SetupEnvVars(@, cfg[p])]
    /\ pc' = [pc EXCEPT ![p] = "mark"]
    /\ UNCHANGED <<disk, persisted, dirs, nextDir, now, mem, cfg, localVars, err, ret,
                   loaded, warned, result, last_call, continue_build_id, mirrorVars, suite, script>>

\* _setup_environment where _setup_env_vars has written the declarations and the
\* mkdir of the working directory raises.
EnvironmentFailsLate(p, e) ==
    /\ Runnable(p, "environment")
    /\ cfg[p].environment_vars # <<>>
    /\ cfg[p].working_dir # "/"
    /\ next_step' = [next_step EXCEPT ![p] = "environment"]
    /\ ran' = [ran EXCEPT ![p] = Append(@, "environment")]
    /\ invoked' = [invoked EXCEPT ![p] = Append(@, OperationOf("environment"))]
    /\ rootfs' = [rootfs EXCEPT ![DirOf(rootfs_path[p])] = SetupEnvVars(@, cfg[p])]
    /\ err' = [err EXCEPT ![p] = e]
    /\ pc' = [pc EXCEPT ![p] = "except"]
    /\ UNCHANGED <<disk, persisted, dirs, nextDir, now, mem, cfg, localVars, ret,
                   loaded, warned, result, last_call, continue_build_id, mirrorVars,
                   suite, swallowed, script>>

\* An executor that, finding every step completed, returns the path of the archive.
LoopExhaustedReturnsImage(p) ==
    /\ pc[p] = "loop"
    /\ GetNextStep(mem[p]) = NoneVal
    /\ next_step' = [next_step EXCEPT ![p] = NoneVal]
    /\ result' = [result EXCEPT ![p] = ImageName(cfg[p])]
    /\ pc' = [pc EXCEPT ![p] = "done"]
    /\ UNCHANGED <<disk, persisted, fsVars, now, mem, cfg, localVars, err, ret, histVars,
                   last_call, continue_build_id, mirrorVars, opVars>>

\* _execute_build_steps: get_next_step() is None, "Build completed but no image was created".
LoopExhausted(p) ==
    /\ pc[p] = "loop"
    /\ GetNextStep(mem[p]) = NoneVal
    /\ next_step' = [next_step EXCEPT ![p] = NoneVal]
    /\ err' = [err EXCEPT ![p] = ErrNoImage]
    /\ pc' = [pc EXCEPT ![p] = "except"]
    /\ UNCHANGED <<disk, persisted, fsVars, now, mem, cfg, localVars, ret, histVars,
                   result, last_call, continue_build_id, mirrorVars, opVars>>

\* Where the executor goes after the step's record is saved.
AfterMark(step) == IF step = "tarball" THEN "cleanup" ELSE "loop"

\* _execute_build_steps: build_state.mark_step_completed(next_step).
MarkCompleted(p) ==
    /\ pc[p] = "mark"
    /\ mem' = [mem EXCEPT ![p] = MarkStepCompleted(@, next_step[p])]
    /\ OpenStateFile(p, AfterMark(next_step[p]))
    /\ UNCHANGED <<fsVars, now, cfg, localVars, next_step, err, histVars, result, last_call, continue_build_id, mirrorVars, opVars>>

\* An except clause that re-raises without recording the failure.
HandleFailureNoRecord(p) ==
    /\ pc[p] = "except"
    /\ pc' = [pc EXCEPT ![p] = "raised"]
    /\ UNCHANGED <<disk, persisted, fsVars, now, mem, cfg, localVars, next_step, err, ret,
                   histVars, result, last_call, continue_build_id, mirrorVars, opVars>>

\* build_image, except Exception: mark_step_failed(get_next_step() or "unknown", str(e)).
HandleFailure(p) ==
    /\ pc[p] = "except"
    /\ mem' = [mem EXCEPT ![p] = MarkStepFailed(@, NextStepOrUnknown(@), err[p])]
    /\ OpenStateFile(p, "raised")
    /\ UNCHANGED <<fsVars, now, cfg, localVars, next_step, err, histVars, result, last_call, continue_build_id, mirrorVars, opVars>>

\* A cleanup that leaves the state file in place.
CleanupKeepsFile(p) ==
    /\ pc[p] = "cleanup"
    /\ pc' = [pc EXCEPT ![p] = "rmtemp"]
    /\ UNCHANGED <<disk, persisted, fsVars, now, mem, cfg, localVars, next_step, err, ret,
                   histVars, result, last_call, continue_build_id, mirrorVars, opVars>>

\* _execute_build_steps after the tarball step: build_state.cleanup().
Cleanup(p) ==
    /\ pc[p] = "cleanup"
    /\ disk' = [disk EXCEPT ![mem[p].build_id] = AbsentFile]
    /\ persisted' = [persisted EXCEPT ![mem[p].build_id] = AbsentFile]
    /\ pc' = [pc EXCEPT ![p] = "rmtemp"]
    /\ UNCHANGED <<fsVars, now, mem, cfg, localVars, next_step, err, ret, histVars,
                   result, last_call, continue_build_id, mirrorVars, opVars>>

\* _execute_build_steps: sudo rm -rf temp_dir succeeds; return image_path.
RemoveTempOk(p) ==
    /\ pc[p] = "rmtemp"
    /\ dirs' = dirs \ {temp_dir[p]}
    /\ rootfs' = [rootfs EXCEPT ![temp_dir[p]] = EmptyRootfs]
    /\ result' = [result EXCEPT ![p] = ImageName(cfg[p])]
    /\ pc' = [pc EXCEPT ![p] = "done"]
    /\ UNCHANGED <<disk, persisted, nextDir, now, mem, cfg, localVars, next_step, err, ret,
                   histVars, last_call, continue_build_id, mirrorVars, opVars>>

\* _execute_build_steps: sudo rm -rf temp_dir fails, a warning only; return image_path.
RemoveTempFails(p) ==
    /\ pc[p] = "rmtemp"
    /\ result' = [result EXCEPT ![p] = ImageName(cfg[p])]
    /\ warned' = [warned EXCEPT ![p] = TRUE]
    /\ pc' = [pc EXCEPT ![p] = "done"]
    /\ UNCHANGED <<disk, persisted, fsVars, now, mem, cfg, localVars, next_step, err, ret,
                   ran, loaded, last_call, continue_build_id, mirrorVars, opVars>>

\* build_image has returned or raised: the caller (cli build / build_continue) ends.
Return(p) ==
    /\ pc[p] \in {"done", "raised"}
    /\ Reset(p)
    /\ UNCHANGED <<disk, persisted, fsVars, now, last_call>>

\* The process is killed inside build_image: its memory is lost, the files stay.
Crash(p) ==
    /\ pc[p] \in {"alloc", "loop", "mirror", "mark", "except", "saving", "cleanup", "rmtemp"}
    /\ Reset(p)
    /\ UNCHANGED <<disk, persisted, fsVars, now, last_call>>

\* /tmp is cleared (a reboot) while no build runs: a working directory disappears.
TmpCleared(d) ==
    /\ d \in dirs
    /\ \A p \in Procs : pc[p] = "idle"
    /\ dirs' = dirs \ {d}
    /\ rootfs' = [rootfs EXCEPT ![d] = EmptyRootfs]
    /\ UNCHANGED <<disk, persisted, nextDir, now, pc, mem, cfg, localVars, next_step, err,
                   ret, histVars, result, last_call, continue_build_id, mirrorVars, opVars>>

Next ==
    \/ \E p \in MainProcs :
        \/ CheckDebootstrapFails(p)
        \/ \E c \in Configs, b \in MainBuildIds : StartFresh(p, c, b)
        \/ \E c \in Configs, b \in MainBuildIds : ResumeNotFound(p, c, b)
        \/ \E c \in Configs, b \in MainBuildIds : ResumeUnreadable(p, c, b)
        \/ \E c \in Configs, b \in MainBuildIds : ResumeLoad(p, c, b)
        \/ ReuseDir(p)
        \/ AllocDir(p)
        \/ StartDebootstrap(p)
        \/ TryMirrorOk(p)
        \/ \E e \in Errors : TryMirrorFails(p, e)
        \/ MirrorsExhausted(p)
        \/ RunStepOk(p)
        \/ \E e \in Errors : RunStepFails(p, e)
        \/ CreateUserFails(p)
        \/ \E e \in Errors : EnvironmentFailsLate(p, e)
        \/ StepInterrupted(p)
        \/ LoopExhausted(p)
        \/ MarkCompleted(p)
        \/ HandleFailure(p)
        \/ SaveWrite(p)
        \/ Cleanup(p)
        \/ RemoveTempOk(p)
        \/ RemoveTempFails(p)
        \/ Return(p)
        \/ Crash(p)
    \/ \E d \in 1..MaxDirs : TmpCleared(d)

Spec == Init /\ [][Next]_vars

\* ---------------------------------------------------- colliding build identifiers
\* build_image without continue_build_id when uuid4()[:8] is the id of a build whose
\* state file exists: BuildState.__init__ builds the new dict and does not look at the file.
StartFreshOnExisting(p, c, b) ==
    /\ pc[p] = "idle"
    /\ now < MaxBuilds
    /\ disk[b].kind # "absent"
    /\ now' = now + 1
    /\ mem' = [mem EXCEPT ![p] = InitialState(b, c.name, now + 1)]
    /\ cfg' = [cfg EXCEPT ![p] = c]
    /\ pc' = [pc EXCEPT ![p] = "alloc"]
    /\ UNCHANGED <<disk, persisted, fsVars, localVars, next_step, err, ret, histVars,
                   result, last_call, continue_build_id, mirrorVars, opVars>>

NextCollision ==
    \/ Next
    \/ \E p \in MainProcs, c \in Configs, b \in MainBuildIds : StartFreshOnExisting(p, c, b)

SpecCollision == Init /\ [][NextCollision]_vars

\* ------------------------------------------------ two builds at the same time
\* Two instances, each on a build id of its own (instance p on id p), interleaved: each
\* runs one build, to its image or to the failure of a step after debootstrap.
NextTwo ==
    \E p \in Procs :
        \/ \E c \in Configs : StartFresh(p, c, p)
        \/ AllocDir(p)
        \/ StartDebootstrap(p)
        \/ TryMirrorOk(p)
        \/ RunStepOk(p)
        \/ \E e \in Errors : RunStepFails(p, e)
        \/ MarkCompleted(p)
        \/ HandleFailure(p)
        \/ SaveWrite(p)
        \/ Cleanup(p)
        \/ RemoveTempOk(p)

SpecTwo == Init /\ [][NextTwo]_vars

\* ------------------------------------------------------------ suite lookup
\* The distributions validate_distribution accepts, and versions: the ones the suite
\* table lists and some it does not.
Distributions == {"ubuntu", "debian", "fedora", "centos", "alpine"}

Versions ==
    {"22.04", "20.04", "18.04", "24.04", "12", "11", "10", "bookworm", "bullseye",
     "13", "sid", "3.19"}

\* One instance is inside _run_debootstrap with some configuration.
InitSuite ==
    /\ \E d \in Distributions, v \in Versions :
        cfg = [p \in Procs |-> IF p \in MainProcs
                               THEN [NoConfig EXCEPT !.name = "t", !.distribution = d,
                                                     !.version = v]
                               ELSE NoConfig]
    /\ pc = [p \in Procs |-> IF p \in MainProcs THEN "unit" ELSE "idle"]
    /\ disk = [b \in BuildIds |-> AbsentFile]
    /\ persisted = [b \in BuildIds |-> AbsentFile]
    /\ dirs = {}
    /\ nextDir = 0
    /\ rootfs = <<>>
    /\ now = 0
    /\ mem = [p \in Procs |-> BlankState]
    /\ temp_dir = [p \in Procs |-> NoDir]
    /\ rootfs_path = [p \in Procs |-> NoPath]
    /\ next_step = [p \in Procs |-> NoneVal]
    /\ err = [p \in Procs |-> NoneVal]
    /\ ret = [p \in Procs |-> NoneVal]
    /\ ran = [p \in Procs |-> <<>>]
    /\ loaded = [p \in Procs |-> <<>>]
    /\ result = [p \in Procs |-> <<>>]
    /\ warned = [p \in Procs |-> FALSE]
    /\ last_call = <<>>
    /\ continue_build_id = [p \in Procs |-> NoBuild]
    /\ mirror_pos = [p \in Procs |-> 0]
    /\ last_error = [p \in Procs |-> NoneVal]
    /\ tried = [p \in Procs |-> <<>>]
    /\ mirror_errors = [p \in Procs |-> <<>>]
    /\ suite = [p \in Procs |-> NoneVal]
    /\ invoked = [p \in Procs |-> <<>>]
    /\ swallowed = [p \in Procs |-> {}]
    /\ script = [p \in Procs |-> NoScript]

\* _run_debootstrap: the suite lookup.
GetSuite(p) ==
    /\ pc[p] = "unit"
    /\ suite[p] = NoneVal
    /\ suite' = [suite EXCEPT ![p] = SuiteOf(cfg[p].distribution, cfg[p].version)]
    /\ UNCHANGED <<disk, persisted, fsVars, now, pc, mem, cfg, localVars, next_step, err,
                   ret, histVars, result, last_call, continue_build_id, mirrorVars,
                   invoked, swallowed, script>>

NextSuite == \E p \in MainProcs : GetSuite(p)

SpecSuite == InitSuite /\ [][NextSuite]_vars

\* ------------------------------------------------------- the package script
\* Distributions with and without a branch in _create_package_script, and package lists.
AnyDistributions == Distributions \cup {"arch", "gentoo", "void"}

PackageLists == { <<"curl">>, <<"git">>, <<"curl", "vim">> }

\* The record of a new build whose debootstrap step is done.
BootstrappedState ==
    [InitialState(1, "t", 1) EXCEPT !.completed_steps = <<"debootstrap">>,
                                    !.current_step = 1,
                                    !.temp_dir = 1,
                                    !.rootfs_path = RootfsOf(1)]

\* One instance is in the step loop of a new build, after debootstrap and before packages,
\* with a configuration that lists packages.
InitScript ==
    /\ \E d \in AnyDistributions, pk \in PackageLists :
        cfg = [p \in Procs |-> IF p \in MainProcs
                               THEN [NoConfig EXCEPT !.name = "t", !.distribution = d,
                                                     !.version = "1", !.packages = pk]
                               ELSE NoConfig]
    /\ mem = [p \in Procs |-> IF p \in MainProcs THEN BootstrappedState ELSE BlankState]
    /\ disk = [b \in BuildIds |-> IF b \in MainBuildIds
                                  THEN JsonDump(BootstrappedState) ELSE AbsentFile]
    /\ persisted = disk
    /\ dirs = {1}
    /\ nextDir = 1
    /\ rootfs = << [base |-> TRUE, env |-> "none"] >>
    /\ now = 1
    /\ pc = [p \in Procs |-> IF p \in MainProcs THEN "loop" ELSE "idle"]
    /\ temp_dir = [p \in Procs |-> IF p \in MainProcs THEN 1 ELSE NoDir]
    /\ rootfs_path = [p \in Procs |-> IF p \in MainProcs THEN RootfsOf(1) ELSE NoPath]
    /\ next_step = [p \in Procs |-> IF p \in MainProcs THEN "debootstrap" ELSE NoneVal]
    /\ err = [p \in Procs |-> NoneVal]
    /\ ret = [p \in Procs |-> NoneVal]
    /\ ran = [p \in Procs |-> IF p \in MainProcs THEN <<"debootstrap">> ELSE <<>>]
    /\ loaded = [p \in Procs |-> <<>>]
    /\ result = [p \in Procs |-> <<>>]
    /\ warned = [p \in Procs |-> FALSE]
    /\ last_call = <<>>
    /\ continue_build_id = [p \in Procs |-> NoBuild]
    /\ mirror_pos = [p \in Procs |-> IF p \in MainProcs THEN 1 ELSE 0]
    /\ last_error = [p \in Procs |-> NoneVal]
    /\ tried = [p \in Procs |-> IF p \in MainProcs
                                THEN <<MirrorsOf(cfg[p].distribution)[1]>> ELSE <<>>]
    /\ mirror_errors = [p \in Procs |-> <<>>]
    /\ suite = [p \in Procs |-> IF p \in MainProcs
                                THEN SuiteOf(cfg[p].distribution, cfg[p].version)
                                ELSE NoneVal]
    /\ invoked = [p \in Procs |-> IF p \in MainProcs THEN <<"_run_debootstrap">> ELSE <<>>]
    /\ swallowed = [p \in Procs |-> {}]
    /\ script = [p \in Procs |-> NoScript]

\* The packages branch with packages configured: _install_packages writes the script and
\* runs it with sudo chroot, check=True; a non-zero exit becomes RuntimeError.
InstallPackages(p, failing) ==
    /\ Runnable(p, "packages")
    /\ IF ScriptExit(CreatePackageScript(cfg[p]), failing) = 0
       THEN RunStepOk(p)
       ELSE RunStepFails(p, "tool failed")

NextScript ==
    \E p \in MainProcs :
        \/ \E failing \in SUBSET ExternalTools : InstallPackages(p, failing)
        \/ MarkCompleted(p)
        \/ HandleFailure(p)
        \/ SaveWrite(p)

SpecScript == InitScript /\ [][NextScript]_vars

\* ------------------------------------------- two resumes of one build identifier
\* The records a build leaves behind when it stops after k steps.
StoppedRecords ==
    { [InitialState(1, c.name, 1) EXCEPT !.completed_steps = SubSeq(Steps, 1, k),
                                         !.current_step = k,
                                         !.temp_dir = 1,
                                         !.rootfs_path = RootfsOf(1)] :
        c \in Configs, k \in 0..(Len(Steps) - 1) }

\* No build runs; the state file of build 1 is the record of a stopped build, its
\* directory exists.
InitStopped ==
    /\ \E s \in StoppedRecords :
        /\ disk = [b \in BuildIds |-> IF b \in MainBuildIds THEN JsonDump(s) ELSE AbsentFile]
        /\ persisted = disk
    /\ dirs = {1}
    /\ nextDir = 1
    /\ rootfs = << [base |-> InSeq("debootstrap", disk[1].state.completed_steps),
                    env |-> IF /\ InSeq("environment", disk[1].state.completed_steps)
                               /\ disk[1].state.config_name = "t2"
                            THEN "once" ELSE "none"] >>
    /\ now = 1
    /\ pc = [p \in Procs |-> "idle"]
    /\ mem = [p \in Procs |-> BlankState]
    /\ cfg = [p \in Procs |-> NoConfig]
    /\ temp_dir = [p \in Procs |-> NoDir]
    /\ rootfs_path = [p \in Procs |-> NoPath]
    /\ next_step = [p \in Procs |-> NoneVal]
    /\ err = [p \in Procs |-> NoneVal]
    /\ ret = [p \in Procs |-> NoneVal]
    /\ ran = [p \in Procs |-> <<>>]
    /\ loaded = [p \in Procs |-> <<>>]
    /\ result = [p \in Procs |-> <<>>]
    /\ warned = [p \in Procs |-> FALSE]
    /\ last_call = <<>>
    /\ continue_build_id = [p \in Procs |-> NoBuild]
    /\ mirror_pos = [p \in Procs |-> 0]
    /\ last_error = [p \in Procs |-> NoneVal]
    /\ tried = [p \in Procs |-> <<>>]
    /\ mirror_errors = [p \in Procs |-> <<>>]
    /\ suite = [p \in Procs |-> NoneVal]
    /\ invoked = [p \in Procs |-> <<>>]
    /\ swallowed = [p \in Procs |-> {}]
    /\ script = [p \in Procs |-> NoScript]

\* cli.build_continue: read config_name from the state file, load the configuration
\* stored under that name and call continue_build with it.
CliBuildContinue(p, b) ==
    \E c \in Configs :
        /\ disk[b].kind = "json"
        /\ c.name = disk[b].state.config_name
        /\ ResumeLoad(p, c, b)

\* flux build-continue, started in two processes for the same id: each process runs
\* build_image once, the two interleaved.
NextSame ==
    \E p \in Procs :
        \/ \E b \in MainBuildIds : CliBuildContinue(p, b)
        \/ ReuseDir(p)
        \/ AllocDir(p)
        \/ StartDebootstrap(p)
        \/ TryMirrorOk(p)
        \/ RunStepOk(p)
        \/ \E e \in Errors : RunStepFails(p, e)
        \/ MarkCompleted(p)
        \/ HandleFailure(p)
        \/ SaveWrite(p)
        \/ Cleanup(p)
        \/ RemoveTempOk(p)

SpecSame == InitStopped /\ [][NextSame]_vars

\* ------------------------------------------------------- edited state files
\* The records a build leaves behind when it stops after k steps, with the current_step
\* rewritten from outside (an editor, another version of the tool) to another number;
\* load_state takes any document.
EditedRecords ==
    { [InitialState(1, c.name, 1) EXCEPT !.completed_steps = SubSeq(Steps, 1, k),
                                         !.current_step = n,
                                         !.temp_dir = 1,
                                         !.rootfs_path = RootfsOf(1)] :
        c \in Configs, k \in 0..(Len(Steps) - 1), n \in 0..Len(Steps) }

\* No build runs; the state file of build 1 is an edited record, its directory exists.
InitEdited ==
    /\ \E s \in EditedRecords :
        /\ s.current_step # Len(s.completed_steps)
        /\ disk = [b \in BuildIds |-> IF b \in MainBuildIds THEN JsonDump(s) ELSE AbsentFile]
        /\ persisted = disk
    /\ dirs = {1}
    /\ nextDir = 1
    /\ rootfs = << [base |-> InSeq("debootstrap", disk[1].state.completed_steps),
                    env |-> IF /\ InSeq("environment", disk[1].state.completed_steps)
                               /\ disk[1].state.config_name = "t2"
                            THEN "once" ELSE "none"] >>
    /\ now = 1
    /\ pc = [p \in Procs |-> "idle"]
    /\ mem = [p \in Procs |-> BlankState]
    /\ cfg = [p \in Procs |-> NoConfig]
    /\ temp_dir = [p \in Procs |-> NoDir]
    /\ rootfs_path = [p \in Procs |-> NoPath]
    /\ next_step = [p \in Procs |-> NoneVal]
    /\ err = [p \in Procs |-> NoneVal]
    /\ ret = [p \in Procs |-> NoneVal]
    /\ ran = [p \in Procs |-> <<>>]
    /\ loaded = [p \in Procs |-> <<>>]
    /\ result = [p \in Procs |-> <<>>]
    /\ warned = [p \in Procs |-> FALSE]
    /\ last_call = <<>>
    /\ continue_build_id = [p \in Procs |-> NoBuild]
    /\ mirror_pos = [p \in Procs |-> 0]
    /\ last_error = [p \in Procs |-> NoneVal]
    /\ tried = [p \in Procs |-> <<>>]
    /\ mirror_errors = [p \in Procs |-> <<>>]
    /\ suite = [p \in Procs |-> NoneVal]
    /\ invoked = [p \in Procs |-> <<>>]
    /\ swallowed = [p \in Procs |-> {}]
    /\ script = [p \in Procs |-> NoScript]

\* _execute_build_steps: the step at index current_step is already in completed_steps,
\* so no branch of the if/elif chain matches and next_step = get_next_step() reads the
\* same step again.
NoBranchTaken(p) ==
    /\ pc[p] = "loop"
    /\ GetNextStep(mem[p]) # NoneVal
    /\ InSeq(GetNextStep(mem[p]), mem[p].completed_steps)
    /\ next_step' = [next_step EXCEPT ![p] = GetNextStep(mem[p])]
    /\ UNCHANGED <<disk, persisted, fsVars, now, pc, mem, cfg, localVars, err, ret, histVars,
                   result, last_call, continue_build_id, mirrorVars, opVars>>

NextEdited ==
    \/ Next
    \/ \E p \in MainProcs : NoBranchTaken(p)

SpecEdited == InitEdited /\ [][NextEdited]_vars

\* The steps build_image takes by itself once it is called, whatever their outcome.
ExecutorStep(p) ==
    \/ ReuseDir(p)
    \/ AllocDir(p)
    \/ StartDebootstrap(p)
    \/ TryMirrorOk(p)
    \/ \E e \in Errors : TryMirrorFails(p, e)
    \/ MirrorsExhausted(p)
    \/ RunStepOk(p)
    \/ \E e \in Errors : RunStepFails(p, e)
    \/ CreateUserFails(p)
    \/ \E e \in Errors : EnvironmentFailsLate(p, e)
    \/ NoBranchTaken(p)
    \/ LoopExhausted(p)
    \/ MarkCompleted(p)
    \/ HandleFailure(p)
    \/ SaveWrite(p)
    \/ Cleanup(p)
    \/ RemoveTempOk(p)
    \/ RemoveTempFails(p)

\* Every operation called inside build_image terminates and the process keeps running
\* while it is not killed.
SpecEditedFair == SpecEdited /\ \A p \in MainProcs : WF_vars(ExecutorStep(p))

\* ------------------------------------------------------- builds that are resumed
\* The process is killed between two operations of the step loop or before the cleanup.
CrashInLoop(p) ==
    /\ pc[p] \in {"loop", "mirror", "mark", "except", "cleanup"}
    /\ Crash(p)

\* What can go wrong from outside: a kill, a mirror that fails, a tool that fails.
Disturbance(p) ==
    \/ CrashInLoop(p)
    \/ \E e \in Errors : TryMirrorFails(p, e)
    \/ \E e \in Errors : RunStepFails(p, e)

\* What the tool and its user do: the user starts a build and runs flux build-continue
\* after each failure or kill; build_image takes its steps, whose operations succeed.
Forward(p) ==
    \/ \E c \in Configs, b \in MainBuildIds : StartFresh(p, c, b)
    \/ \E b \in MainBuildIds : CliBuildContinue(p, b)
    \/ ReuseDir(p)
    \/ AllocDir(p)
    \/ StartDebootstrap(p)
    \/ TryMirrorOk(p)
    \/ MirrorsExhausted(p)
    \/ RunStepOk(p)
    \/ LoopExhausted(p)
    \/ MarkCompleted(p)
    \/ HandleFailure(p)
    \/ SaveWrite(p)
    \/ Cleanup(p)
    \/ RemoveTempOk(p)
    \/ Return(p)

NextLive == \E p \in MainProcs : Forward(p) \/ Disturbance(p)

\* Kills and failing tools happen finitely often, and the user and the tool keep going.
SpecLive ==
    /\ Init
    /\ [][NextLive]_vars
    /\ \A p \in MainProcs : WF_vars(Forward(p))
    /\ \A p \in MainProcs : <>[][~Disturbance(p)]_vars


\* --------------------------------------------------- record-level specification
\* The calls of BuildState made directly on one record, for every state of the dict.
SeqsUpTo(S, n) == UNION {[1..k -> S] : k \in 0..n}

\* The step names the callers pass: the first and the last step, and a name that is no step.
StepNames == {"debootstrap", "tarball", "bogus"}

RecordStates ==
    { [InitialState(1, "t1", 1) EXCEPT !.current_step = n, !.completed_steps = cs] :
        n \in 0..Len(Steps), cs \in SeqsUpTo(StepNames, MaxListLen) }

InitRecord ==
    /\ \E s \in RecordStates :
        /\ mem = [p \in Procs |-> IF p \in MainProcs THEN s ELSE BlankState]
        /\ disk = [b \in BuildIds |-> IF b \in MainBuildIds THEN JsonDump(s) ELSE AbsentFile]
        /\ persisted = [b \in BuildIds |-> IF b \in MainBuildIds THEN JsonDump(s) ELSE AbsentFile]
    /\ dirs = {}
    /\ nextDir = 0
    /\ rootfs = <<>>
    /\ now = 1
    /\ pc = [p \in Procs |-> IF p \in MainProcs THEN "unit" ELSE "idle"]
    /\ cfg = [p \in Procs |-> NoConfig]
    /\ temp_dir = [p \in Procs |-> NoDir]
    /\ rootfs_path = [p \in Procs |-> NoPath]
    /\ next_step = [p \in Procs |-> NoneVal]
    /\ err = [p \in Procs |-> NoneVal]
    /\ ret = [p \in Procs |-> NoneVal]
    /\ ran = [p \in Procs |-> <<>>]
    /\ loaded = [p \in Procs |-> <<>>]
    /\ result = [p \in Procs |-> <<>>]
    /\ warned = [p \in Procs |-> FALSE]
    /\ last_call = <<>>
    /\ continue_build_id = [p \in Procs |-> NoBuild]
    /\ mirror_pos = [p \in Procs |-> 0]
    /\ last_error = [p \in Procs |-> NoneVal]
    /\ tried = [p \in Procs |-> <<>>]
    /\ mirror_errors = [p \in Procs |-> <<>>]
    /\ suite = [p \in Procs |-> NoneVal]
    /\ invoked = [p \in Procs |-> <<>>]
    /\ swallowed = [p \in Procs |-> {}]
    /\ script = [p \in Procs |-> NoScript]

\* Whether the last call made on the record was this one.
SameCall(op, step) == Len(last_call) = 3 /\ last_call[1] = op /\ last_call[2] = step

\* A caller invokes build_state.mark_step_completed(step).
CallMarkStepCompleted(p, step) ==
    /\ pc[p] = "unit"
    /\ last_call' = <<"mark_step_completed", step, SameCall("mark_step_completed", step)>>
    /\ mem' = [mem EXCEPT ![p] = MarkStepCompleted(@, step)]
    /\ OpenStateFile(p, "unit")
    /\ UNCHANGED <<fsVars, now, cfg, localVars, next_step, err, histVars, result, continue_build_id, mirrorVars, opVars>>

\* A caller invokes build_state.mark_step_failed(step, error_message).
CallMarkStepFailed(p, step, e) ==
    /\ pc[p] = "unit"
    /\ last_call' = <<"mark_step_failed", step, SameCall("mark_step_failed", step)>>
    /\ mem' = [mem EXCEPT ![p] = MarkStepFailed(@, step, e)]
    /\ OpenStateFile(p, "unit")
    /\ UNCHANGED <<fsVars, now, cfg, localVars, next_step, err, histVars, result, continue_build_id, mirrorVars, opVars>>

\* A cleanup that unlinks the state file without looking whether it exists.
CallCleanupUnchecked(p) ==
    /\ pc[p] = "unit"
    /\ last_call' = <<"cleanup", NoneVal, SameCall("cleanup", NoneVal)>>
    /\ IF disk[mem[p].build_id].kind = "absent"
       THEN /\ pc' = [pc EXCEPT ![p] = "raised"]
            /\ err' = [err EXCEPT ![p] = "FileNotFoundError"]
            /\ UNCHANGED <<disk, persisted>>
       ELSE /\ disk' = [disk EXCEPT ![mem[p].build_id] = AbsentFile]
            /\ persisted' = [persisted EXCEPT ![mem[p].build_id] = AbsentFile]
            /\ UNCHANGED <<pc, err>>
    /\ UNCHANGED <<fsVars, now, mem, cfg, localVars, next_step, ret, histVars, result,
                   continue_build_id, mirrorVars, opVars>>

\* A caller invokes build_state.cleanup(): if self.state_file.exists(): unlink().
CallCleanup(p) ==
    /\ pc[p] = "unit"
    /\ last_call' = <<"cleanup", NoneVal, SameCall("cleanup", NoneVal)>>
    /\ disk' = [disk EXCEPT ![mem[p].build_id] = AbsentFile]
    /\ persisted' = [persisted EXCEPT ![mem[p].build_id] = AbsentFile]
    /\ UNCHANGED <<fsVars, now, pc, mem, cfg, localVars, next_step, err, ret, histVars,
                   result, continue_build_id, mirrorVars, opVars>>

NextRecord ==
    \E p \in MainProcs :
        \/ \E s \in StepNames : CallMarkStepCompleted(p, s)
        \/ \E s \in StepNames, e \in Errors : CallMarkStepFailed(p, s, e)
        \/ CallCleanup(p)
        \/ SaveWrite(p)

SpecRecord == InitRecord /\ [][NextRecord]_vars

\* ================================================================== claims
\* The state file of the build an instance works on.
FileOf(p) == disk[mem[p].build_id]

\* The instance holds a BuildState.
Building(p) == mem[p].build_id # NoBuild

\* build_image raised an exception that came out of _execute_build_steps' step loop.
StepFailed(p) == pc[p] = "raised" /\ err[p] \in Errors

\* The exception build_image delivers: the bare raise of its handler passes on the
\* exception of the step, a message without a build id (the id is printed, not attached).
RaisedError(p) == [message |-> err[p], build_id |-> NoBuild]

\* The name build_image records for the failure in flight.
FailingStep(p) == IF next_step[p] # NoneVal THEN next_step[p] ELSE "unknown"

\* Two state dicts that differ at most in failed_step and error_message.
SameExceptFailure(s1, s2) ==
    /\ s1.completed_steps = s2.completed_steps
    /\ s1.current_step = s2.current_step
    /\ s1.temp_dir = s2.temp_dir
    /\ s1.rootfs_path = s2.rootfs_path
    /\ s1.build_id = s2.build_id
    /\ s1.config_name = s2.config_name
    /\ s1.started_at = s2.started_at

\* completed_steps is exactly the first current_step entries of the step list.
PrefixOfSteps(state) ==
    /\ state.current_step \in 0..Len(Steps)
    /\ Len(state.completed_steps) = state.current_step
    /\ \A i \in DOMAIN state.completed_steps : state.completed_steps[i] = Steps[i]

\* C1: an invocation of build_image runs exactly the steps that follow the ones the
\* persisted record had completed when it was loaded, in the order of the step list and
\* one after the other; it never runs a step the loaded record had completed (so a
\* resume of a record with debootstrap completed never runs debootstrap again), and
\* when it returns an image it has run every remaining step up to tarball.
C1_ResumeRunsPendingInOrder ==
    \A p \in Procs :
        /\ Len(loaded[p]) + Len(ran[p]) <= Len(Steps)
        /\ \A i \in DOMAIN ran[p] :
            i + Len(loaded[p]) <= Len(Steps) => ran[p][i] = Steps[Len(loaded[p]) + i]
        /\ \A i \in DOMAIN ran[p] : ~InSeq(ran[p][i], loaded[p])
        /\ pc[p] = "done" => Len(loaded[p]) + Len(ran[p]) = Len(Steps)

\* C1 witness: a resume of a record with completed_steps = [debootstrap] has returned
\* after running packages, custom_commands, environment, tarball.
C1_Witness ==
    \E p \in Procs :
        /\ pc[p] = "done"
        /\ loaded[p] = <<"debootstrap">>
        /\ ran[p] = <<"packages", "custom_commands", "environment", "tarball">>

\* C2: the state file of a build id is at every instant absent or one complete
\* document (save_state is atomic); the code truncates the file before it writes it.
C2_SaveStateAtomic ==
    \A b \in BuildIds : disk[b].kind \in {"absent", "json"}

\* C3: before the operation of the next step starts, the state file holds every step
\* that ran before it in completed_steps; and when build_image re-raises an exception
\* of the step loop, the state file holds failed_step and error_message of that failure.
C3_PersistedAfterEveryStep ==
    \A p \in Procs :
        /\ pc[p] = "loop" =>
            /\ FileOf(p).kind = "json"
            /\ \A i \in DOMAIN ran[p] : InSeq(ran[p][i], FileOf(p).state.completed_steps)
        /\ pc[p] = "mark" =>
            /\ FileOf(p).kind = "json"
            /\ \A i \in 1..(Len(ran[p]) - 1) :
                InSeq(ran[p][i], FileOf(p).state.completed_steps)
        /\ (pc[p] = "raised" /\ err[p] \in Errors \cup {ErrNoImage}) =>
            /\ FileOf(p).kind = "json"
            /\ FileOf(p).state.failed_step = FailingStep(p)
            /\ FileOf(p).state.error_message = err[p]

\* C3 witness: build_image raised after one step had succeeded and the next one failed.
C3_Witness ==
    \E p \in Procs :
        /\ StepFailed(p)
        /\ Len(ran[p]) >= 2
        /\ FileOf(p).kind = "json"
        /\ FileOf(p).state.failed_step = ran[p][Len(ran[p])]

\* C4 as stated: once build_image has returned the image, no state file remains and the
\* working directory no longer exists, whatever the cleanup commands did.
C4_NothingLeftAfterSuccess ==
    \A p \in Procs :
        pc[p] = "done" => (FileOf(p).kind = "absent" /\ temp_dir[p] \notin dirs)

\* C4 amended: once build_image has returned the image, no state file remains; the
\* working directory no longer exists unless its removal failed, in which case the
\* warning was printed and the directory is still there.
C4_StateFileGoneDirUnlessWarned ==
    \A p \in Procs :
        pc[p] = "done" =>
            /\ FileOf(p).kind = "absent"
            /\ warned[p] <=> temp_dir[p] \in dirs

\* C4 witness: build_image returned the image after the removal of the directory failed.
C4_Witness ==
    \E p \in Procs : pc[p] = "done" /\ warned[p] /\ FileOf(p).kind = "absent"

\* C5: when build_image raises because a step failed, the state file and the working
\* directory of the build both exist.
C5_FailureKeepsDirAndRecord ==
    \A p \in Procs :
        StepFailed(p) =>
            /\ FileOf(p).kind = "json"
            /\ temp_dir[p] # NoDir
            /\ temp_dir[p] \in dirs
            /\ FileOf(p).state.temp_dir = temp_dir[p]

\* C5 witness: build_image raised because the tarball step failed.
C5_Witness ==
    \E p \in Procs : StepFailed(p) /\ next_step[p] = "tarball" /\ temp_dir[p] \in dirs

\* C6: when the record's temp_dir exists, _execute_build_steps takes temp_dir and
\* rootfs_path from the record, creates no directory, and neither then nor later in the
\* invocation changes the record's temp_dir and rootfs_path.
C6_ResumeReusesDirs ==
    [][\A p \in Procs :
        /\ (pc[p] = "alloc" /\ HasUsableDir(mem[p]) /\ pc'[p] # "idle") =>
            /\ temp_dir'[p] = mem[p].temp_dir
            /\ rootfs_path'[p] = mem[p].rootfs_path
            /\ nextDir' = nextDir
            /\ dirs' = dirs
            /\ mem'[p] = mem[p]
        /\ (pc[p] \in {"loop", "mark", "except", "saving", "cleanup"} /\ pc'[p] # "idle") =>
            /\ mem'[p].temp_dir = mem[p].temp_dir
            /\ mem'[p].rootfs_path = mem[p].rootfs_path
            /\ temp_dir'[p] = temp_dir[p]
            /\ rootfs_path'[p] = rootfs_path[p]]_vars

\* C6 witness: a resumed build is in the step loop on the only directory ever created.
C6_Witness ==
    \E p \in Procs :
        /\ pc[p] = "loop"
        /\ loaded[p] # <<>>
        /\ nextDir = 1
        /\ temp_dir[p] = 1
        /\ mem[p].rootfs_path = rootfs_path[p]

\* C7: a call of mark_step_completed that repeats the call before it, with the same
\* step, leaves completed_steps and current_step as they were.
C7_MarkCompletedIdempotent ==
    [][\A p \in MainProcs :
        (/\ pc[p] = "unit"
         /\ pc'[p] = "saving"
         /\ last_call'[1] = "mark_step_completed"
         /\ last_call'[3]) =>
            /\ mem'[p].completed_steps = mem[p].completed_steps
            /\ mem'[p].current_step = mem[p].current_step]_vars

\* C7 witness: mark_step_completed("tarball") was called twice in a row on a record
\* and the record holds tarball once.
C7_Witness ==
    /\ last_call = <<"mark_step_completed", "tarball", TRUE>>
    /\ pc[1] = "unit"
    /\ Cardinality({i \in DOMAIN mem[1].completed_steps :
                        mem[1].completed_steps[i] = "tarball"}) = 1

\* C8: mark_step_failed, as build_image calls it, leaves every field but failed_step
\* and error_message as it was, in the dict and in the state file it rewrites.
C8_MarkFailedFrame ==
    [][\A p \in Procs :
        /\ (pc[p] = "except" /\ pc'[p] = "saving") => SameExceptFailure(mem[p], mem'[p])
        /\ (/\ pc[p] = "saving"
            /\ ret[p] = "raised"
            /\ pc'[p] = "raised"
            /\ persisted[mem[p].build_id].kind = "json") =>
                SameExceptFailure(persisted[mem[p].build_id].state,
                                  persisted'[mem[p].build_id].state)]_vars

\* C8 witness: a failure was recorded in a record that holds completed steps.
C8_Witness ==
    \E p \in Procs :
        /\ StepFailed(p)
        /\ FileOf(p).kind = "json"
        /\ FileOf(p).state.failed_step = "custom_commands"
        /\ FileOf(p).state.completed_steps = <<"debootstrap", "packages">>

\* C9: in every record, in memory and on disk, completed_steps is the first
\* current_step entries of the step list.
C9_CompletedIsPrefix ==
    /\ \A p \in Procs : Building(p) => PrefixOfSteps(mem[p])
    /\ \A b \in BuildIds : disk[b].kind = "json" => PrefixOfSteps(disk[b].state)

\* C9 witness: a record on disk with three completed steps.
C9_Witness ==
    \E b \in BuildIds :
        /\ disk[b].kind = "json"
        /\ disk[b].state.current_step = 3
        /\ disk[b].state.completed_steps = <<"debootstrap", "packages", "custom_commands">>

\* C10: from one complete version of a build's state file to the next, until the file
\* is deleted, no step leaves completed_steps.
C10_CompletedOnlyGrows ==
    [][\A b \in BuildIds :
        (persisted[b].kind = "json" /\ persisted'[b].kind = "json") =>
            Range(persisted[b].state.completed_steps)
                \subseteq Range(persisted'[b].state.completed_steps)]_vars

\* C10 witness: a resumed build has persisted more completed steps than it loaded, in a
\* record that also holds a failure.
C10_Witness ==
    \E p \in Procs :
        /\ loaded[p] # <<>>
        /\ FileOf(p).kind = "json"
        /\ Len(FileOf(p).state.completed_steps) > Len(loaded[p])
        /\ FileOf(p).state.failed_step # NoneVal

\* C11: whenever save_state has returned and the instance is back in the step loop (or
\* about to clean up), the state file is one complete document that reads back as the
\* dict in memory: its completed_steps are the loaded ones followed by the steps run so
\* far, its current_step their number, its temp_dir and rootfs_path the directories in
\* use; and a resume that finds such a file holds exactly the last saved record.
C11_SavedRecordReadsBack ==
    \A p \in Procs :
        /\ pc[p] \in {"loop", "cleanup"} =>
            /\ FileOf(p).kind = "json"
            /\ JsonLoad(FileOf(p)) = mem[p]
            /\ JsonLoad(FileOf(p)).completed_steps = loaded[p] \o ran[p]
            /\ JsonLoad(FileOf(p)).current_step = Len(loaded[p]) + Len(ran[p])
            /\ JsonLoad(FileOf(p)).temp_dir = temp_dir[p]
            /\ JsonLoad(FileOf(p)).rootfs_path = rootfs_path[p]
        /\ (pc[p] = "alloc" /\ FileOf(p).kind = "json") =>
            /\ mem[p] = persisted[mem[p].build_id].state
            /\ mem[p].completed_steps = loaded[p]

\* C11 witness: a resume has loaded a record that was saved after two steps by an
\* instance that was killed before anything else happened (no failure is recorded).
C11_Witness ==
    \E p \in Procs :
        /\ pc[p] = "alloc"
        /\ mem[p].completed_steps = <<"debootstrap", "packages">>
        /\ mem[p].current_step = 2
        /\ mem[p].failed_step = NoneVal
        /\ mem[p].temp_dir \in dirs
        /\ mem[p].rootfs_path = RootfsOf(mem[p].temp_dir)

\* C12: an interrupt that arrives while the operation of a step runs makes build_image
\* raise at once, with the state file and the dict in memory as they were: the file is
\* the complete document saved at the last step boundary, the interrupted step is not
\* in its completed_steps, and nothing is written to it afterwards.
C12_InterruptKeepsRecord ==
    [][\A p \in Procs :
        /\ (err[p] # ErrInterrupt /\ err'[p] = ErrInterrupt) =>
            /\ pc'[p] = "raised"
            /\ disk' = disk
            /\ persisted' = persisted
            /\ mem'[p] = mem[p]
            /\ FileOf(p).kind = "json"
            /\ JsonLoad(FileOf(p)) = mem[p]
            /\ FileOf(p) = persisted[mem[p].build_id]
            /\ ~InSeq(next_step'[p], JsonLoad(FileOf(p)).completed_steps)
        /\ err[p] = ErrInterrupt => (disk' = disk /\ persisted' = persisted)]_vars

\* C12 witness: build_image was interrupted in the packages step of a build whose
\* state file holds debootstrap as the only completed step and no failure.
C12_Witness ==
    \E p \in Procs :
        /\ pc[p] = "raised"
        /\ err[p] = ErrInterrupt
        /\ next_step[p] = "packages"
        /\ FileOf(p).kind = "json"
        /\ FileOf(p).state.completed_steps = <<"debootstrap">>
        /\ FileOf(p).state.failed_step = NoneVal

\* C13: the mirrors attempted by the bootstrap step are the first mirrors of the
\* distribution's list, in the order of the list; every attempt but the last one failed,
\* and once an attempt has succeeded the loop is over (no later mirror is attempted).
C13_MirrorsInOrderStopAtSuccess ==
    \A p \in Procs :
        /\ Len(tried[p]) <= Len(MirrorsOf(cfg[p].distribution))
        /\ \A i \in DOMAIN tried[p] : tried[p][i] = MirrorsOf(cfg[p].distribution)[i]
        /\ Len(mirror_errors[p]) \in {Len(tried[p]) - 1, Len(tried[p])}
        /\ pc[p] = "mirror" => Len(mirror_errors[p]) = Len(tried[p])
        /\ (pc[p] = "mark" /\ next_step[p] = "debootstrap") =>
                Len(mirror_errors[p]) = Len(tried[p]) - 1

\* C13 witness: the first of three mirrors failed, the second succeeded; the step is
\* recorded as completed and the third mirror was not attempted.
C13_Witness ==
    \E p \in Procs :
        /\ pc[p] = "loop"
        /\ Len(MirrorsOf(cfg[p].distribution)) = 3
        /\ tried[p] = SubSeq(MirrorsOf(cfg[p].distribution), 1, 2)
        /\ Len(mirror_errors[p]) = 1
        /\ mem[p].completed_steps = <<"debootstrap">>

\* C14: when the bootstrap step fails, every mirror of the list was attempted and
\* failed, the exception raised is the one of the last attempt, and debootstrap is in
\* completed_steps neither in memory nor in the state file.
C14_AllMirrorsFailRaisesLast ==
    \A p \in Procs :
        (/\ pc[p] \in {"except", "saving", "raised"}
         /\ next_step[p] = "debootstrap"
         /\ err[p] \in Errors) =>
            /\ tried[p] = MirrorsOf(cfg[p].distribution)
            /\ Len(mirror_errors[p]) = Len(tried[p])
            /\ err[p] = mirror_errors[p][Len(mirror_errors[p])]
            /\ ~InSeq("debootstrap", mem[p].completed_steps)
            /\ FileOf(p).kind = "json" =>
                    ~InSeq("debootstrap", FileOf(p).state.completed_steps)

\* C14 witness: build_image raised the error of the second of two mirrors, which is
\* not the error of the first one.
C14_Witness ==
    \E p \in Procs :
        /\ pc[p] = "raised"
        /\ next_step[p] = "debootstrap"
        /\ Len(mirror_errors[p]) = 2
        /\ mirror_errors[p][1] # mirror_errors[p][2]
        /\ err[p] = mirror_errors[p][2]
        /\ FileOf(p).kind = "json"
        /\ FileOf(p).state.failed_step = "debootstrap"

\* C15: the state dict has no field for a mirror; and every run of the bootstrap step,
\* also one that resumes a build whose bootstrap failed, starts at the top of the
\* list: its first attempt is on the first mirror.
C15_ResumeStartsAtFirstMirror ==
    [][\A p \in Procs :
        /\ (pc[p] = "loop" /\ pc'[p] = "mirror") => (mirror_pos'[p] = 0 /\ tried'[p] = <<>>)
        /\ (tried[p] = <<>> /\ tried'[p] # <<>>) =>
                tried'[p] = <<MirrorsOf(cfg[p].distribution)[1]>>
        /\ \A b \in BuildIds : disk'[b].kind = "json" =>
                DOMAIN disk'[b].state = DOMAIN BlankState]_vars

\* C15 witness: a resume of a build whose bootstrap had failed on every mirror has
\* made its first attempt, on the first mirror.
C15_Witness ==
    \E p \in Procs :
        /\ pc[p] = "mirror"
        /\ mem[p].failed_step = "debootstrap"
        /\ continue_build_id[p] = mem[p].build_id
        /\ tried[p] = <<MirrorsOf(cfg[p].distribution)[1]>>

\* C16: build_image creates the record of a new build only under an id that has no
\* state file, and the state file of a build id is never replaced by the record of
\* another build (one with another started_at).
C16_CreateNeverOverwrites ==
    [][/\ \A p \in Procs :
            (pc[p] = "idle" /\ pc'[p] = "alloc" /\ continue_build_id'[p] = NoBuild) =>
                disk[mem'[p].build_id].kind = "absent"
       /\ \A b \in BuildIds :
            (persisted[b].kind = "json" /\ persisted'[b].kind = "json") =>
                persisted'[b].state.started_at = persisted[b].state.started_at]_vars

\* C17: build_image called with a continue_build_id that has no state file raises
\* "Could not load build state" at once: no BuildState is kept, no step runs, no file and
\* no directory is created, then or before the caller gets the exception.
C17_ResumeOfMissingRecordFails ==
    [][\A p \in Procs :
        /\ \A b \in BuildIds :
            (pc[p] = "idle" /\ continue_build_id'[p] = b /\ disk[b].kind = "absent") =>
                /\ pc'[p] = "raised"
                /\ err'[p] = ErrNotLoaded
                /\ mem'[p] = BlankState
                /\ ran'[p] = <<>>
                /\ disk' = disk
                /\ dirs' = dirs
                /\ nextDir' = nextDir
        /\ (pc[p] = "raised" /\ err[p] = ErrNotLoaded) =>
                (disk' = disk /\ dirs' = dirs /\ nextDir' = nextDir /\ ran'[p] = <<>>)]_vars

\* C17 witness: a resume of an id without state file has raised; there is still no
\* state file and no working directory.
C17_Witness ==
    \E p \in Procs :
        /\ pc[p] = "raised"
        /\ err[p] = ErrNotLoaded
        /\ continue_build_id[p] \in BuildIds
        /\ disk[continue_build_id[p]].kind = "absent"
        /\ dirs = {}
        /\ ran[p] = <<>>

\* A state file that is not the complete, consistent document of a build.
Malformed(file) ==
    \/ file.kind = "partial"
    \/ file.kind = "json" /\ ~PrefixOfSteps(file.state)

\* C18: a resume of a build id whose state file is malformed raises at once and leaves
\* the file alone; no instance that resumed a record whose current_step does not match
\* its completed_steps runs a step or writes the state file.
C18_MalformedRecordFailsClosed ==
    [][\A p \in Procs :
        /\ \A b \in BuildIds :
            (pc[p] = "idle" /\ continue_build_id'[p] = b /\ Malformed(disk[b])) =>
                (pc'[p] = "raised" /\ disk' = disk)
        /\ (continue_build_id[p] # NoBuild /\ Building(p) /\ ~PrefixOfSteps(mem[p])) =>
                (ran'[p] = ran[p] /\ tried'[p] = tried[p] /\ disk' = disk)]_vars

\* C19: when the debootstrap tool is missing, build_image raises from where it was
\* called: it holds no BuildState, and no state file and no working directory is
\* created or changed, then or before the caller gets the exception.
C19_MissingToolChangesNothing ==
    [][\A p \in Procs :
        /\ (err[p] # ErrNoTool /\ err'[p] = ErrNoTool) =>
            /\ pc[p] = "idle"
            /\ pc'[p] = "raised"
            /\ mem'[p] = BlankState
            /\ ran'[p] = <<>>
            /\ disk' = disk
            /\ persisted' = persisted
            /\ dirs' = dirs
            /\ nextDir' = nextDir
        /\ (pc[p] = "raised" /\ err[p] = ErrNoTool) =>
            (disk' = disk /\ dirs' = dirs /\ nextDir' = nextDir)]_vars

\* C19 witness: build_image raised "debootstrap not found" while the state file of an
\* earlier, failed build is on disk as it was saved.
C19_Witness ==
    \E p \in Procs, b \in BuildIds :
        /\ pc[p] = "raised"
        /\ err[p] = ErrNoTool
        /\ disk[b].kind = "json"
        /\ disk[b] = persisted[b]
        /\ disk[b].state.failed_step # NoneVal

\* C20: whenever build_image has raised while it holds a BuildState, the exception
\* it delivers carries the id of that build.
C20_FailureCarriesBuildId ==
    \A p \in Procs :
        (pc[p] = "raised" /\ Building(p)) => RaisedError(p).build_id = mem[p].build_id

\* C21: an instance whose record names a working directory that no longer exists does
\* not raise: it creates a new directory, takes it and its rootfs as temp_dir and
\* rootfs_path, writes both into the record and saves the record; no step has run
\* when the save returns, and the saved record names the new directory.
C21_MissingDirReallocated ==
    [][\A p \in Procs :
        /\ (/\ pc[p] = "alloc"
            /\ mem[p].temp_dir # NoDir
            /\ mem[p].temp_dir \notin dirs
            /\ pc'[p] # "idle") =>
                /\ pc'[p] = "saving"
                /\ ret'[p] = "loop"
                /\ temp_dir'[p] \in dirs' \ dirs
                /\ temp_dir'[p] # mem[p].temp_dir
                /\ rootfs_path'[p] = RootfsOf(temp_dir'[p])
                /\ mem'[p] = [mem[p] EXCEPT !.temp_dir = temp_dir'[p],
                                             !.rootfs_path = rootfs_path'[p]]
                /\ ran'[p] = <<>>
        /\ (pc[p] # "loop" /\ pc'[p] = "loop" /\ ran'[p] = <<>>) =>
                /\ disk'[mem'[p].build_id].kind = "json"
                /\ disk'[mem'[p].build_id].state.temp_dir = temp_dir'[p]
                /\ disk'[mem'[p].build_id].state.rootfs_path = rootfs_path'[p]
                /\ temp_dir'[p] \in dirs']_vars

\* C21 witness: a resumed build whose recorded directory had disappeared is in the step
\* loop, before its first step, on a second directory that its state file names.
C21_Witness ==
    \E p \in Procs :
        /\ pc[p] = "loop"
        /\ ran[p] = <<>>
        /\ continue_build_id[p] = mem[p].build_id
        /\ loaded[p] = <<"debootstrap">>
        /\ 1 \notin dirs
        /\ temp_dir[p] = 2
        /\ FileOf(p).kind = "json"
        /\ FileOf(p).state.temp_dir = 2
        /\ FileOf(p).state.rootfs_path = RootfsOf(2)

\* C22: a step in which a tool exited non-zero is not marked completed, neither in the
\* dict in memory nor in the state file: no tool failure inside a step is swallowed.
C22_NoToolFailureSwallowed ==
    \A p \in Procs : \A s \in swallowed[p] :
        /\ ~InSeq(s, mem[p].completed_steps)
        /\ (Building(p) /\ FileOf(p).kind = "json") =>
                ~InSeq(s, FileOf(p).state.completed_steps)

\* C23: from one complete version of a build's state file to the next, build_id,
\* config_name and started_at stay the same, and build_id is the id the file is stored
\* under; a resume takes the three from the file and works under the id it was given.
C23_IdentityFieldsFixed ==
    [][/\ \A b \in BuildIds :
            /\ persisted'[b].kind = "json" => persisted'[b].state.build_id = b
            /\ (persisted[b].kind = "json" /\ persisted'[b].kind = "json") =>
                /\ persisted'[b].state.config_name = persisted[b].state.config_name
                /\ persisted'[b].state.started_at = persisted[b].state.started_at
       /\ \A p \in Procs :
            /\ (pc[p] = "idle" /\ pc'[p] = "alloc" /\ continue_build_id'[p] # NoBuild) =>
                /\ mem'[p].build_id = continue_build_id'[p]
                /\ mem'[p].config_name = disk[continue_build_id'[p]].state.config_name
                /\ mem'[p].started_at = disk[continue_build_id'[p]].state.started_at
            /\ (Building(p) /\ pc'[p] # "idle") =>
                /\ mem'[p].build_id = mem[p].build_id
                /\ mem'[p].config_name = mem[p].config_name
                /\ mem'[p].started_at = mem[p].started_at]_vars

\* C23 witness: a build created with one configuration was resumed with the other one
\* and failed again; its state file still holds the name it was created with.
C23_Witness ==
    \E p \in Procs :
        /\ StepFailed(p)
        /\ continue_build_id[p] = mem[p].build_id
        /\ FileOf(p).kind = "json"
        /\ FileOf(p).state.config_name # cfg[p].name
        /\ FileOf(p).state.build_id = continue_build_id[p]
        /\ FileOf(p).state.started_at = 1
        /\ Len(ran[p]) >= 2

\* C24: of two instances on two build ids, each has a working directory of its own, and
\* at every step boundary the state file of its build is the dict it holds: the ids match,
\* completed_steps are the steps this instance ran, temp_dir is its directory, and the
\* rootfs in that directory holds the base system exactly if this instance ran debootstrap.
C24_DistinctBuildsIsolated ==
    /\ \A p, q \in Procs :
        (p # q /\ temp_dir[p] # NoDir /\ temp_dir[q] # NoDir) => temp_dir[p] # temp_dir[q]
    /\ \A p, q \in Procs :
        (p # q /\ Building(p) /\ Building(q)) => mem[p].build_id # mem[q].build_id
    /\ \A p \in Procs :
        pc[p] = "loop" =>
            /\ FileOf(p).kind = "json"
            /\ FileOf(p).state = mem[p]
            /\ FileOf(p).state.completed_steps = ran[p]
            /\ FileOf(p).state.temp_dir = temp_dir[p]
            /\ rootfs[temp_dir[p]].base = InSeq("debootstrap", ran[p])

\* C24 witness: both instances are in the step loop, one after its first step and the
\* other after its second.
C24_Witness ==
    /\ pc[1] = "loop"
    /\ pc[2] = "loop"
    /\ disk[mem[1].build_id].state.completed_steps = <<"debootstrap">>
    /\ disk[mem[2].build_id].state.completed_steps = <<"debootstrap", "packages">>
    /\ temp_dir[1] # temp_dir[2]

\* C25: the path build_image returns is images_dir/<name>-<distribution>-<version>.tar.gz
\* of the configuration it was called with.
C25_ArchiveNameFromConfig ==
    \A p \in Procs :
        pc[p] = "done" =>
            result[p] = <<"images_dir", cfg[p].name, "-", cfg[p].distribution, "-",
                          cfg[p].version, ".tar.gz">>

\* C25 witness: the second build under the same id, after two resumes' worth of work,
\* has returned the path of configuration t2.
C25_Witness ==
    \E p \in Procs :
        /\ pc[p] = "done"
        /\ continue_build_id[p] # NoBuild
        /\ loaded[p] # <<>>
        /\ now = 2
        /\ result[p] = <<"images_dir", "t2", "-", "ubuntu", "-", "22.04", ".tar.gz">>

\* C26: the tarball branch's operation, succeeding or failing, changes no state file and
\* no working directory; a state file is deleted only by an instance that is past the
\* recording of tarball, and a directory disappears only in the executor's removal after
\* that (or while no build runs).
C26_TarballKeepsStateAndDir ==
    [][/\ \A p \in Procs :
            (pc[p] = "loop" /\ next_step'[p] = "tarball" /\ pc'[p] \in {"mark", "except", "raised"}) =>
                (disk' = disk /\ dirs' = dirs /\ rootfs' = rootfs)
       /\ \A b \in BuildIds :
            (disk[b].kind # "absent" /\ disk'[b].kind = "absent") =>
                \E p \in Procs :
                    /\ pc[p] = "cleanup"
                    /\ mem[p].build_id = b
                    /\ InSeq("tarball", mem[p].completed_steps)
       /\ \A d \in dirs \ dirs' :
            \/ \E p \in Procs : pc[p] = "rmtemp" /\ temp_dir[p] = d
            \/ \A p \in Procs : pc[p] = "idle"]_vars

\* C26 witness: the tarball operation has succeeded and is not yet recorded; the state
\* file and the working directory are there.
C26_Witness ==
    \E p \in Procs :
        /\ pc[p] = "mark"
        /\ next_step[p] = "tarball"
        /\ FileOf(p).kind = "json"
        /\ ~InSeq("tarball", FileOf(p).state.completed_steps)
        /\ temp_dir[p] \in dirs

\* C27: a call of cleanup leaves no state file and raises nothing; when the state file
\* is already absent it changes nothing.
C27_CleanupRepeatable ==
    [][\A p \in MainProcs :
        (pc[p] = "unit" /\ last_call' # last_call /\ last_call'[1] = "cleanup") =>
            /\ pc'[p] = "unit"
            /\ err'[p] = err[p]
            /\ mem'[p] = mem[p]
            /\ disk'[mem[p].build_id].kind = "absent"
            /\ disk[mem[p].build_id].kind = "absent" =>
                    (disk' = disk /\ persisted' = persisted)]_vars

\* C27 witness: cleanup was called twice in a row; no state file, no error.
C27_Witness ==
    /\ last_call = <<"cleanup", NoneVal, TRUE>>
    /\ pc[1] = "unit"
    /\ err[1] = NoneVal
    /\ disk[mem[1].build_id].kind = "absent"

C29_EmptyListsSkipOperation ==
    \A p \in Procs :
        /\ cfg[p].packages = <<>> => ~InSeq("_install_packages", invoked[p])
        /\ cfg[p].custom_commands = <<>> => ~InSeq("_run_custom_commands", invoked[p])
        /\ (pc[p] \in {"except", "raised"} /\ next_step[p] = "packages") =>
                cfg[p].packages # <<>>
        /\ (pc[p] \in {"except", "raised"} /\ next_step[p] = "custom_commands") =>
                cfg[p].custom_commands # <<>>
        /\ \A s \in {"packages", "custom_commands"} :
            (InSeq(s, ran[p]) /\ pc[p] \in {"loop", "mirror", "cleanup", "rmtemp", "done"}) =>
                /\ InSeq(s, mem[p].completed_steps)
                /\ pc[p] = "loop" => InSeq(s, FileOf(p).state.completed_steps)

\* C29 witness: a build without packages has passed the packages step without calling
\* _install_packages and goes on with the next step.
C29_Witness ==
    \E p \in Procs :
        /\ pc[p] = "loop"
        /\ cfg[p].packages = <<>>
        /\ ran[p] = <<"debootstrap", "packages">>
        /\ invoked[p] = <<"_run_debootstrap">>
        /\ FileOf(p).state.completed_steps = <<"debootstrap", "packages">>
        /\ GetNextStep(mem[p]) = "custom_commands"

\* The suite table of _run_debootstrap, as rows <<distribution, version, suite>>.
SuiteTable ==
    { <<"ubuntu", "22.04", "jammy">>, <<"ubuntu", "20.04", "focal">>,
      <<"ubuntu", "18.04", "bionic">>, <<"ubuntu", "24.04", "noble">>,
      <<"debian", "12", "bookworm">>, <<"debian", "11", "bullseye">>,
      <<"debian", "10", "buster">>, <<"debian", "bookworm", "bookworm">>,
      <<"debian", "bullseye", "bullseye">> }

\* C30: the suite _run_debootstrap computes is the codename of the table's row for
\* (distribution, version) when there is one, and the version itself otherwise: for an
\* unlisted version of ubuntu or debian and for every other distribution.
C30_SuiteFromTable ==
    \A p \in Procs :
        suite[p] # NoneVal =>
            /\ \A row \in SuiteTable :
                (row[1] = cfg[p].distribution /\ row[2] = cfg[p].version) =>
                    suite[p] = row[3]
            /\ (\A row \in SuiteTable :
                    ~(row[1] = cfg[p].distribution /\ row[2] = cfg[p].version)) =>
                    suite[p] = cfg[p].version

\* C30 witness: an ubuntu version that the table does not list was passed through.
C30_Witness ==
    \E p \in Procs :
        /\ cfg[p].distribution = "ubuntu"
        /\ cfg[p].version = "12"
        /\ suite[p] = "12"

\* C31: for a distribution that _create_package_script has no branch for, the script it
\* returns holds no install command and exits with status 0 whichever tools fail, and the
\* packages step does not fail: once its record is saved, packages is in completed_steps.
C31_UnsupportedDistributionScript ==
    \A p \in Procs :
        (/\ cfg[p].distribution \notin {"ubuntu", "debian", "fedora", "centos", "alpine"}
         /\ script[p] # NoScript) =>
            /\ \A i \in DOMAIN script[p].commands :
                /\ <<script[p].commands[i][1], script[p].commands[i][2]>> \notin InstallCommands
                /\ script[p].commands[i][1] \notin ExternalTools
            /\ pc[p] \notin {"except", "raised"}
            /\ err[p] = NoneVal
            /\ FileOf(p).kind = "json" => FileOf(p).state.failed_step = NoneVal
            /\ pc[p] = "loop" =>
                /\ InSeq("packages", FileOf(p).state.completed_steps)
                /\ FileOf(p).state.current_step = 2

\* C31 witness: a build for distribution arch has run the script, which only echoes, and
\* is back in the step loop with packages recorded.
C31_Witness ==
    \E p \in Procs :
        /\ cfg[p].distribution = "arch"
        /\ cfg[p].packages = <<"curl", "vim">>
        /\ pc[p] = "loop"
        /\ script[p].commands = << <<"echo", "Package installation not supported for", "arch">> >>
        /\ FileOf(p).state.completed_steps = <<"debootstrap", "packages">>

\* C32: build_image has returned a path only if the tarball branch ran and _create_tarball
\* was called in this invocation; an invocation that loaded a record in which tarball was
\* already completed never gets to the cleanup or to a return, it raises "Build completed
\* but no image was created".
C32_PathOnlyAfterTarball ==
    \A p \in Procs :
        /\ result[p] # <<>> => pc[p] = "done"
        /\ pc[p] = "done" =>
            /\ result[p] # <<>>
            /\ ran[p] # <<>>
            /\ ran[p][Len(ran[p])] = "tarball"
            /\ invoked[p] # <<>>
            /\ invoked[p][Len(invoked[p])] = "_create_tarball"
            /\ ~InSeq("tarball", loaded[p])
        /\ InSeq("tarball", loaded[p]) =>
            /\ pc[p] \in {"alloc", "saving", "loop", "except", "raised"}
            /\ ran[p] = <<>>
            /\ pc[p] = "raised" => err[p] = ErrNoImage

\* C32 witness: a resume of a record with all five steps completed (the build was killed
\* before its cleanup) has raised and returned nothing.
C32_Witness ==
    \E p \in Procs :
        /\ pc[p] = "raised"
        /\ loaded[p] = Steps
        /\ err[p] = ErrNoImage
        /\ result[p] = <<>>
        /\ FileOf(p).kind = "json"
        /\ FileOf(p).state.failed_step = "unknown"

\* C33: when build_image has raised the error of a step's operation, the state file names
\* as failed_step the step whose branch ran last, which is the step at index current_step,
\* and holds the text of the error as error_message; a record holds "unknown" as
\* failed_step only if no step was pending when it was written (current_step is past the
\* last step).
C33_FailedStepIsExecutingStep ==
    /\ \A p \in Procs :
        StepFailed(p) =>
            /\ FileOf(p).kind = "json"
            /\ ran[p] # <<>>
            /\ FileOf(p).state.failed_step = ran[p][Len(ran[p])]
            /\ FileOf(p).state.failed_step = next_step[p]
            /\ FileOf(p).state.failed_step = Steps[FileOf(p).state.current_step + 1]
            /\ FileOf(p).state.error_message = err[p]
    /\ \A p \in Procs :
        (pc[p] = "raised" /\ err[p] = ErrNoImage) =>
            /\ FileOf(p).kind = "json"
            /\ FileOf(p).state.failed_step = "unknown"
            /\ FileOf(p).state.error_message = ErrNoImage
    /\ \A b \in BuildIds :
        (persisted[b].kind = "json" /\ persisted[b].state.failed_step = "unknown") =>
            persisted[b].state.current_step = Len(Steps)

\* C33 witness: the environment step of a resumed build failed after the record already
\* held the failure of an earlier step; the file names environment and the new error.
C33_Witness ==
    \E p \in Procs :
        /\ StepFailed(p)
        /\ loaded[p] = <<"debootstrap", "packages">>
        /\ ran[p] = <<"custom_commands", "environment">>
        /\ err[p] = "Operation not permitted"
        /\ FileOf(p).state.failed_step = "environment"
        /\ FileOf(p).state.error_message = "Operation not permitted"
        /\ FileOf(p).state.current_step = 3

\* C34: whenever the operation of packages, custom_commands, environment or tarball has
\* been executed by an instance, the rootfs it worked on holds the base system of a
\* successful debootstrap.
C34_LaterStepsOnBootstrappedRootfs ==
    \A p \in Procs :
        (/\ pc[p] \in {"mark", "except"}
         /\ next_step[p] \in {"packages", "custom_commands", "environment", "tarball"}
         /\ InSeq(OperationOf(next_step[p]), invoked[p])) =>
            /\ temp_dir[p] \in dirs
            /\ rootfs[temp_dir[p]].base

\* C37: in every record written to a state file, failed_step is null or names a step
\* that is not in completed_steps.
C37_FailedStepNotCompleted ==
    \A b \in BuildIds :
        persisted[b].kind = "json" =>
            \/ persisted[b].state.failed_step = NoneVal
            \/ ~InSeq(persisted[b].state.failed_step, persisted[b].state.completed_steps)

\* C38: an instance that has executed a step works with the configuration whose name the
\* record holds, and the archive it returns is named after that configuration.
C38_ResumeUsesRecordedConfig ==
    \A p \in Procs :
        /\ (Building(p) /\ ran[p] # <<>>) => cfg[p].name = mem[p].config_name
        /\ pc[p] = "done" => result[p][2] = mem[p].config_name

\* C39: two instances that are inside build_image for the same build id at the same time
\* have not both executed a step operation on the same rootfs, and the state file holds
\* at least the steps that an instance back in its step loop has saved as completed.
C39_OneInstancePerBuild ==
    /\ \A p, q \in Procs :
        (/\ p # q
         /\ mem[p].build_id = mem[q].build_id
         /\ invoked[p] # <<>>
         /\ invoked[q] # <<>>) => rootfs_path[p] # rootfs_path[q]
    /\ \A p \in Procs :
        (pc[p] = "loop" /\ FileOf(p).kind = "json") =>
            \A i \in DOMAIN mem[p].completed_steps :
                InSeq(mem[p].completed_steps[i], FileOf(p).state.completed_steps)

\* C35: a build whose record was saved is, when it is resumed after every failure and
\* kill and these happen finitely often, eventually finished: build_image returns the
\* path of the archive and the state file is gone.
C35_ResumedBuildFinishes ==
    \A b \in MainBuildIds :
        (persisted[b].kind = "json") ~>
            (\E p \in MainProcs : pc[p] = "done" /\ result[p] # <<>> /\ disk[b].kind = "absent")

\* C36: the step loop of _execute_build_steps ends, by a return or by an exception
\* (or the process is killed), whatever record was loaded.
C36_ExecutorLoopTerminates ==
    \A p \in MainProcs :
        (pc[p] = "loop") ~> (pc[p] \in {"done", "raised", "idle"})

====
